---- MODULE Spec2Model ----
(***************************************************************************)
(* Model of the three-point lock (ThreePointLock) and of the identity-     *)
(* tracking memory pool (MemPoolLimitUnique) of package concurrency.       *)
(*                                                                         *)
(* Every goroutine is a process with a program counter.  One step of the   *)
(* model is one channel operation, one mutex-protected section or one      *)
(* call/return of the code; the steps of different goroutines interleave   *)
(* freely.  A send on a full channel and a receive from an empty one are   *)
(* steps that are not enabled; the unbuffered confirm channel is a joint   *)
(* step of its sender and its receiver.                                    *)
(***************************************************************************)
EXTENDS Integers, Sequences, FiniteSets, TLC

VARIABLES
    cfg,        \* what the constructors fixed: goroutines, lock fields, pool fields
    elements,   \* MemPoolLimitUnique.elements: pool -> buffered channel content
    tracker,    \* MemPoolLimitUnique.tracker:  pool -> (identity -> taken)
    nextId,     \* the identity the next make([]byte, ...) yields
    data,       \* the heap: pool -> (identity -> bytes of the backing array)
    request,    \* ThreePointLock.request: lock -> buffered channel content (cap 1)
    done,       \* ThreePointLock.done:    lock -> number of buffered signals (cap 1)
    cleared,    \* pool -> Clear has set its elements and tracker to nil
    mu,         \* pool -> goroutine that holds its sync.Mutex, 0 when unlocked
    closed,     \* lock -> the channels of the lock that Close has closed
    slots,      \* Semaphore: number of elements buffered in the channel l
    acquired,   \* goroutine -> slots of the Semaphore it took with Add and has not
                \* freed with Done, and release functions it has not called
    ctxDone,    \* the context of the worker loops has been cancelled
    pc,         \* goroutine -> the statement it is at
    sem,        \* goroutine -> the slice in its local variable (sem / elem)
    size,       \* goroutine -> the size argument of its Get call
    ret,        \* goroutine -> the statement its current Get / Put call returns to
    cycles,     \* goroutine -> iterations it still has to run
    err         \* goroutine -> result of its last Lock / Unlock call

vars == <<cfg, elements, tracker, nextId, data, cleared, mu, request, done, closed, slots, acquired,
          ctxDone, pc, sem, size, ret, cycles, err>>

poolVars == <<elements, tracker, nextId>>
chanVars == <<request, done>>

----------------------------------------------------------------------------
(* Bounds of the checked configurations *)

\* the default-constructed lock with one locker and one worker (SpecSingle)
NCyclesSingle == 4  \* sequential Lock/Unlock cycles of the locker

\* one lock shared by N lockers and N workers over a pool of N (SpecMulti)
MaxConc == 2        \* N ranges over 2..MaxConc
MaxWorkMulti == 4   \* Lock/Unlock cycles of all N lockers together

\* N lock instances, each with a pool of N, a worker and a locker (SpecInst)
MaxInst == 2        \* N ranges over 2..MaxInst
MaxWorkInst == 6    \* Lock/Unlock cycles of all N lockers together

\* goroutines that use a pool directly (SpecPool, SpecPoolDup)
MaxClients == 2     \* concurrent pool clients 1..MaxClients
MaxPoolN == 2       \* pool sizes 1..MaxPoolN
MaxSize == 2        \* sizes 0..MaxSize asked of Get
MaxWorkPool == 4    \* Get/Put rounds of all clients together

\* pool clients that also write to and resize their buffer (SpecResize)
MaxResize == 3      \* sizes 0..MaxResize asked of Resize
MaxByte == 1        \* first bytes 1..MaxByte of the patterns a client writes
MaxWorkResize == 4  \* calls of Get and Put of all clients together, two a round
MaxResizeClients == 2 \* concurrent clients 1..MaxResizeClients
MaxWorkResizeDup == 4 \* rounds of all clients that resize and Put twice together
MaxClearClients == 2  \* goroutines that use a pool which is cleared
MaxClearPool == 2     \* elements of a pool which is cleared
MaxWorkClear == 4     \* rounds of all clients of a cleared pool together

\* goroutines that use a pool without identity tracking (SpecLimit)
MaxLimitClients == 2 \* concurrent clients 1..MaxLimitClients
MaxLimitPool == 2   \* pool sizes 1..MaxLimitPool
MaxWorkLimit == 4   \* rounds of Get, Put, Put of all clients together

\* the lock with a timeout and a pre-lock hook that can fail (SpecFail)
MaxFailLockers == 2 \* concurrent lockers 1..MaxFailLockers
MaxFailPool == 2    \* pool sizes 1..MaxFailPool
MaxSemN == 2        \* Semaphores New(0), the unlimited one, to New(MaxSemN)
MaxSemUsers == 2    \* goroutines 1..MaxSemUsers that use one Semaphore
MaxSemCalls == 4    \* calls on the Semaphore of all goroutines together
MaxClose == 2       \* calls of Close
MaxWorkFail == 4    \* Lock attempts of all lockers together

\* the lock served by one worker (Spec)
MaxPool == 2        \* pool sizes 1..MaxPool
MaxLockers == 2     \* concurrent lockers 1..MaxLockers
MaxCycles == 2      \* Lock/Unlock cycles of each locker

----------------------------------------------------------------------------
(* Slices: identity (address of the first element), length, capacity *)

NoSem == [id |-> 0, len |-> 0, cap |-> 0]

Slice(i, l, c) == [id |-> i, len |-> l, cap |-> c]

\* the backing array of make([]byte, c)
Zeros(c) == [k \in 1..c |-> 0]

\* elem[:cap(elem)]
FullCap(e) == [e EXCEPT !.len = e.cap]

RECURSIVE SeqCount(_, _)
SeqCount(s, i) ==
    IF s = <<>> THEN 0
    ELSE (IF Head(s).id = i THEN 1 ELSE 0) + SeqCount(Tail(s), i)

Procs == DOMAIN pc
Locks == DOMAIN request
Pools == DOMAIN elements

Lockers == {p \in Procs : cfg.kind[p] = "locker"}
Closers == {p \in Procs : cfg.kind[p] = "closer"}
SemUsers == {p \in Procs : cfg.kind[p] = "semuser"}
Workers == {p \in Procs : cfg.kind[p] = "worker"}
Clients == {p \in Procs : cfg.kind[p] \in {"client", "dupclient"}}
LimitClients == {p \in Procs : cfg.kind[p] = "limitclient"}

\* the lock a locker or worker goroutine uses, the pool a goroutine draws from
TplOf(p) == cfg.tpl[p]
PoolOf(p) == IF cfg.kind[p] \in {"client", "dupclient", "limitclient"} THEN cfg.pool[p] ELSE cfg.memPool[cfg.tpl[p]]

\* identity i of pool q is in the queue, in a request channel or in the
\* variable of a goroutine other than p
Held(q, i, p) ==
    \/ \E r \in Procs \ {p} : PoolOf(r) = q /\ sem[r].id = i
    \/ SeqCount(elements[q], i) > 0
    \/ \E l \in Locks : cfg.memPool[l] = q /\ SeqCount(request[l], i) > 0

\* the heap d once identity i has been retired from the tracking map: an
\* array that nothing refers to any more is garbage and leaves the heap
Retire(d, i, held) == IF held THEN d ELSE [j \in DOMAIN d \ {i} |-> d[j]]

\* a panic ends the program: nothing runs after it
Panicked == \E p \in Procs : pc[p] = "panic"

\* goroutine p is at statement l of a running program
At(p, l) == pc[p] = l /\ ~Panicked

----------------------------------------------------------------------------
(* Construction *)

\* NewMemPoolLimitUnique(n, initialElementSize) for pool number q: n buffers
\* of distinct identity, all enqueued and tracked as non-taken
PoolIds(c, q) == {(q - 1) * c.n + k : k \in 1..c.n}

NewMemPoolLimitUnique(c, q) ==
    [k \in 1..c.n |-> Slice((q - 1) * c.n + k, c.initialElementSize, c.initialElementSize)]

\* L locks, each with a pool of its own of n buffers of the given size, k
\* lockers running c cycles and w worker loops; the goroutines of lock l are
\* numbered (l-1)*(k+w)+1 .. l*(k+w), lockers first.  The lock fields are
\* those NewThreePointLock sets: hooks ("nil" when absent), timeout (TRUE
\* when non-zero) and memPool
LockCfg(L, k, w, n, c, elemSize, preFn, postFn, tmo) ==
    [kind |-> [p \in 1..(L * (k + w)) |->
                  IF (p - 1) % (k + w) < k THEN "locker" ELSE "worker"],
     tpl |-> [p \in 1..(L * (k + w)) |-> ((p - 1) \div (k + w)) + 1],
     pool |-> [p \in 1..(L * (k + w)) |-> 0],
     locks |-> 1..L,
     pools |-> 1..L,
     memPool |-> [l \in 1..L |-> l],
     lockRequestFn |-> [l \in 1..L |-> preFn],
     unlockRequestFn |-> [l \in 1..L |-> postFn],
     timeout |-> [l \in 1..L |-> tmo],
     n |-> n,
     initialElementSize |-> elemSize,
     cycles |-> c]

\* One pool of n buffers of the given size used directly by k goroutines
\* that run c rounds of Get and Put; with dup they Put every buffer twice
PoolCfg(k, n, c, elemSize, dup) ==
    [kind |-> [p \in 1..k |-> IF dup THEN "dupclient" ELSE "client"],
     tpl |-> [p \in 1..k |-> 0],
     pool |-> [p \in 1..k |-> 1],
     locks |-> {},
     pools |-> {1},
     memPool |-> <<>>,
     lockRequestFn |-> <<>>,
     unlockRequestFn |-> <<>>,
     timeout |-> <<>>,
     n |-> n,
     initialElementSize |-> elemSize,
     cycles |-> c]

\* One Semaphore New(n) used by k goroutines that make c calls each
SemCfg(k, n, c) ==
    [kind |-> [p \in 1..k |-> "semuser"],
     tpl |-> [p \in 1..k |-> 0],
     pool |-> [p \in 1..k |-> 0],
     locks |-> {},
     pools |-> {},
     memPool |-> <<>>,
     lockRequestFn |-> <<>>,
     unlockRequestFn |-> <<>>,
     timeout |-> <<>>,
     n |-> 0,
     initialElementSize |-> 0,
     cycles |-> c,
     semN |-> n]

\* The goroutines of c and one more, which calls Close on lock 1, calls times
WithCloser(c, calls) ==
    [kind |-> Append(c.kind, "closer"),
     tpl |-> Append(c.tpl, 1),
     pool |-> Append(c.pool, 0),
     locks |-> c.locks,
     pools |-> c.pools,
     memPool |-> c.memPool,
     lockRequestFn |-> c.lockRequestFn,
     unlockRequestFn |-> c.unlockRequestFn,
     timeout |-> c.timeout,
     n |-> c.n,
     initialElementSize |-> c.initialElementSize,
     cycles |-> c.cycles,
     closes |-> calls]

\* The state right after construction of the pools, the locks and the
\* goroutines described by c, every goroutine at the top of its function
InitFrom(c) ==
    /\ cfg = c
    /\ elements = [q \in c.pools |-> NewMemPoolLimitUnique(c, q)]
    /\ tracker = [q \in c.pools |-> [i \in PoolIds(c, q) |-> FALSE]]
    /\ nextId = c.n * Cardinality(c.pools) + 1
    /\ data = [q \in c.pools |-> [i \in PoolIds(c, q) |-> Zeros(c.initialElementSize)]]
    /\ cleared = [q \in c.pools |-> FALSE]
    /\ mu = [q \in c.pools |-> 0]
    /\ request = [l \in c.locks |-> <<>>]
    /\ done = [l \in c.locks |-> 0]
    /\ closed = [l \in c.locks |-> {}]
    /\ slots = 0
    /\ acquired = [p \in DOMAIN c.kind |-> [add |-> 0, fn |-> 0]]
    /\ ctxDone = FALSE
    /\ pc = [p \in DOMAIN c.kind |->
                CASE c.kind[p] = "locker" -> "L_idle"
                  [] c.kind[p] = "worker" -> "W_poll"
                  [] c.kind[p] = "closer" -> "X_idle"
                  [] c.kind[p] = "semuser" -> "S_idle"
                  [] OTHER -> "C_idle"]
    /\ sem = [p \in DOMAIN c.kind |-> NoSem]
    /\ size = [p \in DOMAIN c.kind |-> 0]
    /\ ret = [p \in DOMAIN c.kind |-> "none"]
    /\ cycles = [p \in DOMAIN c.kind |->
                    CASE c.kind[p] = "worker" -> 0
                      [] c.kind[p] = "closer" -> c.closes
                      [] OTHER -> c.cycles]
    /\ err = [p \in DOMAIN c.kind |-> "none"]

----------------------------------------------------------------------------
(* MemPoolLimitUnique.Get *)

\* GetRecv that leaves the element it received in the channel
GetRecv_NoDequeue(p) ==
    /\ At(p, "Get_recv")
    /\ Len(elements[PoolOf(p)]) > 0
    /\ sem' = [sem EXCEPT ![p] = Head(elements[PoolOf(p)])]
    /\ pc' = [pc EXCEPT ![p] = "Get_track"]
    /\ UNCHANGED <<cfg, cleared, mu, closed, slots, acquired, data, elements, tracker, nextId, chanVars, ctxDone, size, ret, cycles, err>>

\* GetRecv that does not wait: with an empty channel it goes on with the
\* zero value of the receive
GetRecv_NoWait(p) ==
    /\ At(p, "Get_recv")
    /\ IF Len(elements[PoolOf(p)]) > 0
       THEN /\ sem' = [sem EXCEPT ![p] = Head(elements[PoolOf(p)])]
            /\ elements' = [elements EXCEPT ![PoolOf(p)] = Tail(@)]
       ELSE /\ sem' = [sem EXCEPT ![p] = NoSem]
            /\ UNCHANGED elements
    /\ pc' = [pc EXCEPT ![p] = "Get_track"]
    /\ UNCHANGED <<cfg, cleared, mu, closed, slots, acquired, data, tracker, nextId, chanVars, ctxDone, size, ret, cycles, err>>

\* elem = <-p.elements
GetRecv(p) ==
    /\ At(p, "Get_recv")
    /\ ~cleared[PoolOf(p)]
    /\ Len(elements[PoolOf(p)]) > 0
    /\ sem' = [sem EXCEPT ![p] = Head(elements[PoolOf(p)])]
    /\ elements' = [elements EXCEPT ![PoolOf(p)] = Tail(@)]
    /\ pc' = [pc EXCEPT ![p] = "Get_track"]
    /\ UNCHANGED <<cfg, cleared, mu, closed, slots, acquired, data, tracker, nextId, chanVars, ctxDone, size, ret, cycles, err>>

\* GetTrack whose new buffer has just the requested size and which leaves
\* the old identity in the map
GetTrack_NoRetire(p) ==
    /\ At(p, "Get_track")
    /\ LET q == PoolOf(p)
           e == sem[p]
       IN  IF e.cap < size[p]
           THEN /\ tracker' = [tracker EXCEPT ![q] =
                       [i \in DOMAIN @ \cup {nextId} |->
                           IF i = nextId THEN TRUE ELSE @[i]]]
                /\ sem' = [sem EXCEPT ![p] = Slice(nextId, size[p], size[p])]
                /\ nextId' = nextId + 1
                /\ data' = [data EXCEPT ![q] =
                       [i \in DOMAIN @ \cup {nextId} |->
                           IF i = nextId THEN Zeros(size[p]) ELSE @[i]]]
                /\ pc' = [pc EXCEPT ![p] = ret[p]]
           ELSE /\ tracker' = [tracker EXCEPT ![q] =
                       [i \in DOMAIN @ \cup {e.id} |-> IF i = e.id THEN TRUE ELSE @[i]]]
                /\ sem' = [sem EXCEPT ![p] = [e EXCEPT !.len = size[p]]]
                /\ pc' = [pc EXCEPT ![p] = ret[p]]
                /\ UNCHANGED <<nextId, data>>
    /\ UNCHANGED <<cfg, cleared, mu, closed, slots, acquired, elements, chanVars, ctxDone, size, ret, cycles, err>>

\* the section under the mutex and the reslice to size
GetTrack(p) ==
    /\ At(p, "Get_track")
    /\ mu[PoolOf(p)] = 0
    /\ LET q == PoolOf(p)
           e == sem[p]
       IN  IF e.cap < size[p]
           THEN IF e.len = 0
                THEN \* slicePtr(elem) of an empty slice: index out of range
                     /\ pc' = [pc EXCEPT ![p] = "panic"]
                     /\ UNCHANGED <<tracker, nextId, data, sem>>
                ELSE /\ tracker' = [tracker EXCEPT ![q] =
                            [i \in (DOMAIN @ \ {e.id}) \cup {nextId} |->
                                IF i = nextId THEN TRUE ELSE @[i]]]
                     /\ sem' = [sem EXCEPT ![p] = Slice(nextId, size[p], 2 * size[p])]
                     /\ nextId' = nextId + 1
                     /\ data' = [data EXCEPT ![q] =
                            [i \in DOMAIN Retire(@, e.id, Held(q, e.id, p)) \cup {nextId} |->
                                IF i = nextId THEN Zeros(2 * size[p]) ELSE @[i]]]
                     /\ pc' = [pc EXCEPT ![p] = ret[p]]
           ELSE IF e.len = 0
                THEN /\ pc' = [pc EXCEPT ![p] = "panic"]
                     /\ UNCHANGED <<tracker, nextId, data, sem>>
                ELSE /\ tracker' = [tracker EXCEPT ![q] =
                            [i \in DOMAIN @ \cup {e.id} |-> IF i = e.id THEN TRUE ELSE @[i]]]
                     /\ sem' = [sem EXCEPT ![p] = [e EXCEPT !.len = size[p]]]
                     /\ pc' = [pc EXCEPT ![p] = ret[p]]
                     /\ UNCHANGED <<nextId, data>>
    /\ UNCHANGED <<cfg, cleared, closed, slots, acquired, elements, chanVars, ctxDone, size, ret, cycles, err>>
    \* p.Unlock() on the returns; the panics leave the section without it
    /\ mu' = [mu EXCEPT ![PoolOf(p)] = IF pc'[p] = "panic" THEN p ELSE 0]

----------------------------------------------------------------------------
(* MemPoolLimitUnique.Put *)

\* PutTrack without the check for a duplicate Put: it always goes on to the
\* send
PutTrack_NoDupCheck(p) ==
    /\ At(p, "Put_track")
    /\ tracker' = [tracker EXCEPT ![PoolOf(p)][sem[p].id] = FALSE]
    /\ pc' = [pc EXCEPT ![p] = "Put_send"]
    /\ UNCHANGED <<cfg, cleared, mu, closed, slots, acquired, data, elements, nextId, chanVars, ctxDone, sem, size, ret, cycles, err>>

\* PutTrack that marks the element as non-taken and returns without ever
\* going on to the send
PutTrack_NoEnqueue(p) ==
    /\ At(p, "Put_track")
    /\ tracker' = [tracker EXCEPT ![PoolOf(p)][sem[p].id] = FALSE]
    /\ pc' = [pc EXCEPT ![p] = ret[p]]
    /\ UNCHANGED <<cfg, cleared, mu, closed, slots, acquired, data, elements, nextId, chanVars, ctxDone, sem, size, ret, cycles, err>>

\* PutTrack that takes an element it does not track for one of its own: it
\* registers the identity and goes on to the send
PutTrack_AbsorbUntracked(p) ==
    /\ At(p, "Put_track")
    /\ LET q == PoolOf(p)
           e == FullCap(sem[p])
       IN  /\ tracker' = [tracker EXCEPT ![q] =
                  [i \in DOMAIN @ \cup {e.id} |-> IF i = e.id THEN FALSE ELSE @[i]]]
           /\ pc' = [pc EXCEPT ![p] =
                  IF e.id \in DOMAIN tracker[q] /\ ~tracker[q][e.id] THEN ret[p] ELSE "Put_send"]
    /\ UNCHANGED <<cfg, cleared, mu, closed, slots, acquired, data, elements, nextId, chanVars, ctxDone, sem, size, ret, cycles, err>>

\* elem = elem[:cap(elem)] and the section under the mutex; returns at once
\* when the element was not tracked as taken
PutTrack(p) ==
    /\ At(p, "Put_track")
    /\ mu[PoolOf(p)] = 0
    /\ LET q == PoolOf(p)
           e == FullCap(sem[p])
       IN  IF e.len = 0 \/ e.id \notin DOMAIN tracker[q]
           THEN \* slicePtr of an empty slice, or "cannot return untracked
                \* memory element to pool"
                /\ pc' = [pc EXCEPT ![p] = "panic"]
                /\ UNCHANGED tracker
           ELSE /\ tracker' = [tracker EXCEPT ![q][e.id] = FALSE]
                /\ pc' = [pc EXCEPT ![p] = IF tracker[q][e.id] THEN "Put_send" ELSE ret[p]]
    /\ UNCHANGED <<cfg, cleared, closed, slots, acquired, data, elements, nextId, chanVars, ctxDone, sem, size, ret, cycles, err>>
    \* p.Unlock() on the returns; the panics leave the section without it
    /\ mu' = [mu EXCEPT ![PoolOf(p)] = IF pc'[p] = "panic" THEN p ELSE 0]

\* PutSend of the view the caller passed, not resliced to its capacity
PutSend_NoRestore(p) ==
    /\ At(p, "Put_send")
    /\ Len(elements[PoolOf(p)]) < cfg.n
    /\ elements' = [elements EXCEPT ![PoolOf(p)] = Append(@, sem[p])]
    /\ pc' = [pc EXCEPT ![p] = ret[p]]
    /\ UNCHANGED <<cfg, cleared, mu, closed, slots, acquired, data, tracker, nextId, chanVars, ctxDone, sem, size, ret, cycles, err>>

\* p.elements <- elem
PutSend(p) ==
    /\ At(p, "Put_send")
    /\ ~cleared[PoolOf(p)]
    /\ Len(elements[PoolOf(p)]) < cfg.n
    /\ elements' = [elements EXCEPT ![PoolOf(p)] = Append(@, FullCap(sem[p]))]
    /\ pc' = [pc EXCEPT ![p] = ret[p]]
    /\ UNCHANGED <<cfg, cleared, mu, closed, slots, acquired, data, tracker, nextId, chanVars, ctxDone, sem, size, ret, cycles, err>>

----------------------------------------------------------------------------
(* Goroutines that use a pool directly *)

\* the end of one iteration of a locker or pool client
Finish(p, idle, fin) == IF cycles[p] > 1 THEN idle ELSE fin

\* a client calls p.Get(sz); Get(0) hands out an empty view of a buffer
ClientGet(p) ==
    /\ At(p, "C_idle")
    /\ \E sz \in 0..MaxSize : size' = [size EXCEPT ![p] = sz]
    /\ pc' = [pc EXCEPT ![p] = "Get_recv"]
    /\ ret' = [ret EXCEPT ![p] = "C_hold"]
    /\ UNCHANGED <<cfg, cleared, mu, closed, slots, acquired, data, poolVars, chanVars, ctxDone, sem, cycles, err>>

\* a client calls p.Put(elem) with the buffer it holds from Get; a client
\* that releases twice goes on to C_released, any other has ended its round
ClientPut(p) ==
    /\ At(p, "C_hold")
    /\ pc' = [pc EXCEPT ![p] = "Put_track"]
    /\ IF cfg.kind[p] = "dupclient"
       THEN /\ ret' = [ret EXCEPT ![p] = "C_released"]
            /\ UNCHANGED cycles
       ELSE /\ ret' = [ret EXCEPT ![p] = Finish(p, "C_idle", "C_done")]
            /\ cycles' = [cycles EXCEPT ![p] = @ - 1]
    /\ UNCHANGED <<cfg, cleared, mu, closed, slots, acquired, data, poolVars, chanVars, ctxDone, sem, size, err>>

\* a client calls p.Put(elem) a second time with the buffer it has already
\* returned
ClientPutAgain(p) ==
    /\ At(p, "C_released")
    /\ pc' = [pc EXCEPT ![p] = "Put_track"]
    /\ ret' = [ret EXCEPT ![p] = Finish(p, "C_idle", "C_done")]
    /\ cycles' = [cycles EXCEPT ![p] = @ - 1]
    /\ UNCHANGED <<cfg, cleared, mu, closed, slots, acquired, data, poolVars, chanVars, ctxDone, sem, size, err>>

\* a client fills the buffer it holds: byte k (from 1) becomes b + k - 1
ClientWrite(p) ==
    /\ At(p, "C_hold")
    /\ sem[p].id \in DOMAIN data[PoolOf(p)]
    /\ \E b \in 1..MaxByte :
          data' = [data EXCEPT ![PoolOf(p)][sem[p].id] =
                      [k \in DOMAIN @ |-> IF k <= sem[p].len THEN (b + k - 1) % 256 ELSE @[k]]]
    /\ UNCHANGED <<cfg, cleared, mu, closed, slots, acquired, elements, tracker, nextId, chanVars, ctxDone, pc, sem, size, ret, cycles, err>>

\* a client calls p.Resize(elem, sz) with the buffer it holds, once between
\* Get and Put, either as elem = p.Resize(elem, sz) ("C_assign") or dropping
\* the result ("C_drop")
ClientResize(p) ==
    /\ At(p, "C_hold")
    /\ ret[p] = "C_hold"
    /\ \E sz \in 0..MaxResize : size' = [size EXCEPT ![p] = sz]
    /\ \E r \in {"C_assign", "C_drop"} : ret' = [ret EXCEPT ![p] = r]
    /\ pc' = [pc EXCEPT ![p] = "Resize_track"]
    /\ UNCHANGED <<cfg, cleared, mu, closed, slots, acquired, data, poolVars, chanVars, ctxDone, sem, cycles, err>>

\* a client outgrows the buffer it holds: elem = p.Resize(elem, cap(elem) + 1),
\* once between Get and Put
ClientGrow(p) ==
    /\ At(p, "C_hold")
    /\ ret[p] = "C_hold"
    /\ sem[p].cap < MaxResize
    /\ size' = [size EXCEPT ![p] = sem[p].cap + 1]
    /\ ret' = [ret EXCEPT ![p] = "C_assign"]
    /\ pc' = [pc EXCEPT ![p] = "Resize_track"]
    /\ UNCHANGED <<cfg, cleared, mu, closed, slots, acquired, data, poolVars, chanVars, ctxDone, sem, cycles, err>>

\* a client makes a buffer of its own, elem := make([]byte, sz), and calls
\* p.Put(elem) or p.Resize(elem, sz) with it
ClientForeign(p) ==
    /\ At(p, "C_idle")
    /\ \E sz \in 1..MaxSize :
          /\ sem' = [sem EXCEPT ![p] = Slice(nextId, sz, sz)]
          /\ size' = [size EXCEPT ![p] = sz]
          /\ data' = [data EXCEPT ![PoolOf(p)] =
                        [i \in DOMAIN @ \cup {nextId} |-> IF i = nextId THEN Zeros(sz) ELSE @[i]]]
    /\ nextId' = nextId + 1
    /\ \E l \in {"Put_track", "Resize_track"} : pc' = [pc EXCEPT ![p] = l]
    /\ ret' = [ret EXCEPT ![p] = "C_assign"]
    /\ UNCHANGED <<cfg, cleared, mu, closed, slots, acquired, elements, tracker, chanVars, ctxDone, cycles, err>>

----------------------------------------------------------------------------
(* MemPoolLimitUnique.Resize *)

\* copy(newElem, elem) into a fresh array of c bytes
CopyInto(c, e, bytes) == [k \in 1..c |-> IF k <= e.len THEN bytes[k] ELSE 0]

\* Resize whose replacement is registered as non-taken beside the old
\* identity, which stays in the map
Resize_KeepOld(p) ==
    /\ At(p, "Resize_track")
    /\ LET q == PoolOf(p)
           e == sem[p]
       IN  IF e.len = 0 \/ e.id \notin DOMAIN tracker[q]
           THEN /\ pc' = [pc EXCEPT ![p] = "panic"]
                /\ UNCHANGED <<tracker, nextId, data, sem>>
           ELSE IF e.cap < size[p]
           THEN /\ data' = [data EXCEPT ![q] =
                        [i \in DOMAIN @ \cup {nextId} |->
                            IF i = nextId THEN CopyInto(size[p], e, @[e.id]) ELSE @[i]]]
                /\ tracker' = [tracker EXCEPT ![q] =
                        [i \in DOMAIN @ \cup {nextId} |->
                            IF i = nextId THEN FALSE ELSE @[i]]]
                /\ nextId' = nextId + 1
                /\ sem' = [sem EXCEPT ![p] =
                        IF ret[p] = "C_drop" THEN e ELSE Slice(nextId, size[p], size[p])]
                /\ pc' = [pc EXCEPT ![p] = "C_hold"]
           ELSE /\ tracker' = [tracker EXCEPT ![q][e.id] = TRUE]
                /\ sem' = [sem EXCEPT ![p] =
                        IF ret[p] = "C_drop" THEN e ELSE [e EXCEPT !.len = size[p]]]
                /\ pc' = [pc EXCEPT ![p] = "C_hold"]
                /\ UNCHANGED <<nextId, data>>
    /\ UNCHANGED <<cfg, cleared, mu, closed, slots, acquired, elements, chanVars, ctxDone, size, ret, cycles, err>>

\* the whole of Resize, which runs under the mutex: panic for an untracked
\* identity; a replacement of exactly size bytes with the old content when
\* the capacity is too small; otherwise the reslice of the same array.  The
\* caller is back at C_hold with the result or, having dropped it, with the
\* slice it passed
Resize(p) ==
    /\ At(p, "Resize_track")
    /\ mu[PoolOf(p)] = 0
    /\ LET q == PoolOf(p)
           e == sem[p]
       IN  IF e.len = 0 \/ e.id \notin DOMAIN tracker[q]
           THEN \* slicePtr of an empty slice, or "cannot resize untracked
                \* memory element"
                /\ pc' = [pc EXCEPT ![p] = "panic"]
                /\ UNCHANGED <<tracker, nextId, data, sem>>
           ELSE IF e.cap < size[p]
           THEN /\ data' = [data EXCEPT ![q] =
                        [i \in DOMAIN Retire(@, e.id, ret[p] = "C_drop" \/ Held(q, e.id, p))
                                \cup {nextId} |->
                            IF i = nextId THEN CopyInto(size[p], e, @[e.id]) ELSE @[i]]]
                /\ tracker' = [tracker EXCEPT ![q] =
                        [i \in (DOMAIN @ \ {e.id}) \cup {nextId} |->
                            IF i = nextId THEN TRUE ELSE @[i]]]
                /\ nextId' = nextId + 1
                /\ sem' = [sem EXCEPT ![p] =
                        IF ret[p] = "C_drop" THEN e ELSE Slice(nextId, size[p], size[p])]
                /\ pc' = [pc EXCEPT ![p] = "C_hold"]
           ELSE /\ tracker' = [tracker EXCEPT ![q][e.id] = TRUE]
                /\ sem' = [sem EXCEPT ![p] =
                        IF ret[p] = "C_drop" THEN e ELSE [e EXCEPT !.len = size[p]]]
                /\ pc' = [pc EXCEPT ![p] = "C_hold"]
                /\ UNCHANGED <<nextId, data>>
    /\ UNCHANGED <<cfg, cleared, closed, slots, acquired, elements, chanVars, ctxDone, size, ret, cycles, err>>
    \* p.Unlock() on the returns; the panics leave the section without it
    /\ mu' = [mu EXCEPT ![PoolOf(p)] = IF pc'[p] = "panic" THEN p ELSE 0]

----------------------------------------------------------------------------
(* MemPoolLimit: the pool without identity tracking *)

\* NewMemPool(n): n elements make([]byte, 0), which have no backing array
NewMemPool(n) == [k \in 1..n |-> NoSem]

\* One MemPoolLimit of n elements used by k goroutines that run c rounds of
\* Get, Put and Put again
LimitCfg(k, n, c) ==
    [kind |-> [p \in 1..k |-> "limitclient"],
     tpl |-> [p \in 1..k |-> 0],
     pool |-> [p \in 1..k |-> 1],
     locks |-> {},
     pools |-> {1},
     memPool |-> <<>>,
     lockRequestFn |-> <<>>,
     unlockRequestFn |-> <<>>,
     timeout |-> <<>>,
     n |-> n,
     initialElementSize |-> 0,
     cycles |-> c]

\* a client calls p.Get(sz)
LimitClientGet(p) ==
    /\ At(p, "C_idle")
    /\ \E sz \in 0..MaxSize : size' = [size EXCEPT ![p] = sz]
    /\ pc' = [pc EXCEPT ![p] = "LimitGet"]
    /\ UNCHANGED <<cfg, cleared, mu, closed, slots, acquired, data, poolVars, chanVars, ctxDone, sem, ret, cycles, err>>

\* Get: elem = <-p.elements, a new array of 2*size when the capacity is too
\* small, elem[:size]
MemPoolLimitGet(p) ==
    /\ At(p, "LimitGet")
    /\ Len(elements[PoolOf(p)]) > 0
    /\ LET e == Head(elements[PoolOf(p)])
       IN  IF e.cap < size[p]
           THEN /\ sem' = [sem EXCEPT ![p] = Slice(nextId, size[p], 2 * size[p])]
                /\ nextId' = nextId + 1
           ELSE /\ sem' = [sem EXCEPT ![p] = [e EXCEPT !.len = size[p]]]
                /\ UNCHANGED nextId
    /\ elements' = [elements EXCEPT ![PoolOf(p)] = Tail(@)]
    /\ pc' = [pc EXCEPT ![p] = "C_hold"]
    /\ UNCHANGED <<cfg, cleared, mu, closed, slots, acquired, data, tracker, chanVars, ctxDone, size, ret, cycles, err>>

\* a client calls p.Put(elem) with the buffer it holds from Get
LimitClientPut(p) ==
    /\ At(p, "C_hold")
    /\ pc' = [pc EXCEPT ![p] = "LimitPut"]
    /\ ret' = [ret EXCEPT ![p] = "C_released"]
    /\ UNCHANGED <<cfg, cleared, mu, closed, slots, acquired, data, poolVars, chanVars, ctxDone, sem, size, cycles, err>>

\* a client calls p.Put(elem) a second time with the buffer it has returned
LimitClientPutAgain(p) ==
    /\ At(p, "C_released")
    /\ pc' = [pc EXCEPT ![p] = "LimitPut"]
    /\ ret' = [ret EXCEPT ![p] = Finish(p, "C_idle", "C_done")]
    /\ cycles' = [cycles EXCEPT ![p] = @ - 1]
    /\ UNCHANGED <<cfg, cleared, mu, closed, slots, acquired, data, poolVars, chanVars, ctxDone, sem, size, err>>

\* Put that does not enqueue a buffer which is in the queue already
MemPoolLimitPut_Unique(p) ==
    /\ At(p, "LimitPut")
    /\ Len(elements[PoolOf(p)]) < cfg.n
    /\ elements' = [elements EXCEPT ![PoolOf(p)] =
                      IF SeqCount(@, sem[p].id) > 0 THEN @ ELSE Append(@, FullCap(sem[p]))]
    /\ pc' = [pc EXCEPT ![p] = ret[p]]
    /\ UNCHANGED <<cfg, cleared, mu, closed, slots, acquired, data, tracker, nextId, chanVars, ctxDone, sem, size, ret, cycles, err>>

\* Put: elem = elem[:cap(elem)]; p.elements <- elem
MemPoolLimitPut(p) ==
    /\ At(p, "LimitPut")
    /\ Len(elements[PoolOf(p)]) < cfg.n
    /\ elements' = [elements EXCEPT ![PoolOf(p)] = Append(@, FullCap(sem[p]))]
    /\ pc' = [pc EXCEPT ![p] = ret[p]]
    /\ UNCHANGED <<cfg, cleared, mu, closed, slots, acquired, data, tracker, nextId, chanVars, ctxDone, sem, size, ret, cycles, err>>

InitLimit ==
    \E k \in 1..MaxLimitClients, n \in 1..MaxLimitPool :
        /\ cfg = LimitCfg(k, n, MaxWorkLimit \div k)
        /\ elements = [q \in {1} |-> NewMemPool(n)]
        /\ tracker = [q \in {1} |-> <<>>]
        /\ nextId = 1
        /\ data = [q \in {1} |-> <<>>]
        /\ cleared = [q \in {1} |-> FALSE]
        /\ mu = [q \in {1} |-> 0]
        /\ request = <<>>
        /\ done = <<>>
        /\ closed = <<>>
        /\ slots = 0
        /\ acquired = [p \in 1..k |-> [add |-> 0, fn |-> 0]]
        /\ ctxDone = FALSE
        /\ pc = [p \in 1..k |-> "C_idle"]
        /\ sem = [p \in 1..k |-> NoSem]
        /\ size = [p \in 1..k |-> 0]
        /\ ret = [p \in 1..k |-> "none"]
        /\ cycles = [p \in 1..k |-> MaxWorkLimit \div k]
        /\ err = [p \in 1..k |-> "none"]

NextLimit ==
    \/ \E p \in LimitClients : LimitClientGet(p)
    \/ \E p \in LimitClients : MemPoolLimitGet(p)
    \/ \E p \in LimitClients : LimitClientPut(p)
    \/ \E p \in LimitClients : LimitClientPutAgain(p)
    \/ \E p \in LimitClients : MemPoolLimitPut(p)

SpecLimit == InitLimit /\ [][NextLimit]_vars

----------------------------------------------------------------------------
(* ThreePointLock: the locker side *)

\* Lock is called: sem := tpl.memPool.Get(tpl.memPool.initialElementSize)
LockCall(p) ==
    /\ At(p, "L_idle")
    /\ pc' = [pc EXCEPT ![p] = "Get_recv"]
    /\ ret' = [ret EXCEPT ![p] = "Lock_send"]
    /\ size' = [size EXCEPT ![p] = cfg.initialElementSize]
    /\ err' = [err EXCEPT ![p] = "none"]
    /\ UNCHANGED <<cfg, cleared, mu, closed, slots, acquired, data, poolVars, chanVars, ctxDone, sem, cycles>>

\* LockSend on a request channel without a capacity limit
LockSend_Unbounded(p) ==
    /\ At(p, "Lock_send")
    /\ request' = [request EXCEPT ![TplOf(p)] = Append(@, sem[p])]
    /\ pc' = [pc EXCEPT ![p] =
                IF cfg.lockRequestFn[TplOf(p)] # "nil" THEN "Lock_hook" ELSE "Lock_wait"]
    /\ UNCHANGED <<cfg, cleared, mu, closed, slots, acquired, data, poolVars, done, ctxDone, sem, size, ret, cycles, err>>

\* tpl.request <- sem
LockSend(p) ==
    /\ At(p, "Lock_send")
    /\ "request" \notin closed[TplOf(p)]
    /\ Len(request[TplOf(p)]) < 1
    /\ request' = [request EXCEPT ![TplOf(p)] = Append(@, sem[p])]
    /\ pc' = [pc EXCEPT ![p] =
                IF cfg.lockRequestFn[TplOf(p)] # "nil" THEN "Lock_hook" ELSE "Lock_wait"]
    /\ UNCHANGED <<cfg, cleared, mu, closed, slots, acquired, data, poolVars, done, ctxDone, sem, size, ret, cycles, err>>

\* LockRequestFn whose failure makes Lock return the error at once, without
\* the Put of the token
LockRequestFn_NoPut(p) ==
    /\ At(p, "Lock_hook")
    /\ \/ /\ pc' = [pc EXCEPT ![p] = "Lock_wait"]
          /\ UNCHANGED <<ret, err>>
       \/ /\ pc' = [pc EXCEPT ![p] = "Lock_fail"]
          /\ ret' = [ret EXCEPT ![p] = "Lock_fail"]
          /\ err' = [err EXCEPT ![p] = "hookErr"]
    /\ UNCHANGED <<cfg, cleared, mu, closed, slots, acquired, data, poolVars, chanVars, ctxDone, sem, size, cycles>>

\* tpl.lockRequestFn() returns nil, or it returns an error and Lock goes on
\* to tpl.memPool.Put(sem)
LockRequestFn(p) ==
    /\ At(p, "Lock_hook")
    /\ \/ /\ pc' = [pc EXCEPT ![p] = "Lock_wait"]
          /\ UNCHANGED <<ret, err>>
       \/ /\ pc' = [pc EXCEPT ![p] = "Put_track"]
          /\ ret' = [ret EXCEPT ![p] = "Lock_fail"]
          /\ err' = [err EXCEPT ![p] = "hookErr"]
    /\ UNCHANGED <<cfg, cleared, mu, closed, slots, acquired, data, poolVars, chanVars, ctxDone, sem, size, cycles>>

\* case <-time.After(tpl.timeout): err = ErrLockConfirmTimeout and Lock goes
\* on to tpl.memPool.Put(sem)
LockTimeout(p) ==
    /\ At(p, "Lock_wait")
    /\ cfg.timeout[TplOf(p)]
    /\ pc' = [pc EXCEPT ![p] = "Put_track"]
    /\ ret' = [ret EXCEPT ![p] = "Lock_fail"]
    /\ err' = [err EXCEPT ![p] = "ErrLockConfirmTimeout"]
    /\ UNCHANGED <<cfg, cleared, mu, closed, slots, acquired, data, poolVars, chanVars, ctxDone, sem, size, cycles>>

\* Lock returns its error after the Put; the caller does not Unlock and goes
\* on to its next attempt
LockFail(p) ==
    /\ At(p, "Lock_fail")
    /\ pc' = [pc EXCEPT ![p] = Finish(p, "L_idle", "L_done")]
    /\ cycles' = [cycles EXCEPT ![p] = @ - 1]
    /\ sem' = [sem EXCEPT ![p] = NoSem]
    /\ UNCHANGED <<cfg, cleared, mu, closed, slots, acquired, data, poolVars, chanVars, ctxDone, size, ret, err>>

\* Unlock is called by a locker that holds the lock
UnlockCall(p) ==
    /\ At(p, "locked")
    /\ pc' = [pc EXCEPT ![p] = "Unlock_send"]
    /\ UNCHANGED <<cfg, cleared, mu, closed, slots, acquired, data, poolVars, chanVars, ctxDone, sem, size, ret, cycles, err>>

\* tpl.done <- struct{}{}; without a post-unlock hook Unlock returns nil at
\* once, with one it goes on to call it
UnlockSend(p) ==
    /\ At(p, "Unlock_send")
    /\ "done" \notin closed[TplOf(p)]
    /\ done[TplOf(p)] < 1
    /\ done' = [done EXCEPT ![TplOf(p)] = @ + 1]
    /\ IF cfg.unlockRequestFn[TplOf(p)] = "nil"
       THEN /\ pc' = [pc EXCEPT ![p] = Finish(p, "L_idle", "L_done")]
            /\ cycles' = [cycles EXCEPT ![p] = @ - 1]
            /\ err' = [err EXCEPT ![p] = "nil"]
            /\ sem' = [sem EXCEPT ![p] = NoSem]
       ELSE /\ pc' = [pc EXCEPT ![p] = "Unlock_hook"]
            /\ UNCHANGED <<cycles, err, sem>>
    /\ UNCHANGED <<cfg, cleared, mu, closed, slots, acquired, data, poolVars, request, ctxDone, size, ret>>

\* UnlockRequestFn whose failure takes the done signal back
UnlockRequestFn_Retract(p) ==
    /\ At(p, "Unlock_hook")
    /\ \/ /\ err' = [err EXCEPT ![p] = "nil"]
          /\ UNCHANGED done
       \/ /\ err' = [err EXCEPT ![p] = "unlockHookErr"]
          /\ done' = [done EXCEPT ![TplOf(p)] = 0]
    /\ pc' = [pc EXCEPT ![p] = "Unlock_ret"]
    /\ UNCHANGED <<cfg, cleared, mu, closed, slots, acquired, data, poolVars, request, ctxDone, sem, size, ret, cycles>>

\* err = tpl.unlockRequestFn(): nil or the error of the hook, which is what
\* Unlock returns
UnlockRequestFn(p) ==
    /\ At(p, "Unlock_hook")
    /\ \E e \in {"nil", "unlockHookErr"} : err' = [err EXCEPT ![p] = e]
    /\ pc' = [pc EXCEPT ![p] = "Unlock_ret"]
    /\ UNCHANGED <<cfg, cleared, mu, closed, slots, acquired, data, poolVars, chanVars, ctxDone, sem, size, ret, cycles>>

\* Unlock has returned the result of its hook; the caller goes on to its
\* next cycle
UnlockReturn(p) ==
    /\ At(p, "Unlock_ret")
    /\ pc' = [pc EXCEPT ![p] = Finish(p, "L_idle", "L_done")]
    /\ cycles' = [cycles EXCEPT ![p] = @ - 1]
    /\ sem' = [sem EXCEPT ![p] = NoSem]
    /\ UNCHANGED <<cfg, cleared, mu, closed, slots, acquired, data, poolVars, chanVars, ctxDone, size, ret, err>>

\* MustLock that hands the failure of Lock on to its caller, who goes on
MustLock_ReturnsErr(p) ==
    /\ At(p, "Lock_fail")
    /\ pc' = [pc EXCEPT ![p] = Finish(p, "L_idle", "L_done")]
    /\ cycles' = [cycles EXCEPT ![p] = @ - 1]
    /\ sem' = [sem EXCEPT ![p] = NoSem]
    /\ UNCHANGED <<cfg, cleared, mu, closed, slots, acquired, data, poolVars, chanVars, ctxDone, size, ret, err>>

\* MustLock after tpl.Lock() has returned an error: panic.  (When Lock
\* returns nil, MustLock returns as Lock does.)
MustLock(p) ==
    /\ At(p, "Lock_fail")
    /\ pc' = [pc EXCEPT ![p] = "panic"]
    /\ UNCHANGED <<cfg, cleared, mu, closed, slots, acquired, data, poolVars, chanVars, ctxDone, sem, size, ret, cycles, err>>

\* MustUnlock after tpl.Unlock() has returned the result of the hook: panic
\* on an error, otherwise the caller goes on to its next cycle
MustUnlock(p) ==
    /\ At(p, "Unlock_ret")
    /\ IF err[p] # "nil"
       THEN /\ pc' = [pc EXCEPT ![p] = "panic"]
            /\ UNCHANGED <<cycles, sem>>
       ELSE /\ pc' = [pc EXCEPT ![p] = Finish(p, "L_idle", "L_done")]
            /\ cycles' = [cycles EXCEPT ![p] = @ - 1]
            /\ sem' = [sem EXCEPT ![p] = NoSem]
    /\ UNCHANGED <<cfg, cleared, mu, closed, slots, acquired, data, poolVars, chanVars, ctxDone, size, ret, err>>

----------------------------------------------------------------------------
(* ThreePointLock: the worker side, called from the polling loop *)

\* tpl.HasLockRequest() at the top of the loop; without a request the loop
\* sleeps, looks at its context and polls again, which changes nothing
\* unless the context has been cancelled
HasLockRequest(w) ==
    /\ At(w, "W_poll")
    /\ pc' = [pc EXCEPT ![w] =
                IF Len(request[TplOf(w)]) > 0 THEN "W_consume"
                ELSE IF ctxDone THEN "W_stopped" ELSE "W_poll"]
    /\ UNCHANGED <<cfg, cleared, mu, closed, slots, acquired, data, poolVars, chanVars, ctxDone, sem, size, ret, cycles, err>>

\* sem := tpl.ConsumeLockRequest(), i.e. <-tpl.request
ConsumeLockRequest(w) ==
    /\ At(w, "W_consume")
    /\ Len(request[TplOf(w)]) > 0
    /\ sem' = [sem EXCEPT ![w] = Head(request[TplOf(w)])]
    /\ request' = [request EXCEPT ![TplOf(w)] = Tail(@)]
    /\ pc' = [pc EXCEPT ![w] = "W_confirm"]
    /\ UNCHANGED <<cfg, cleared, mu, closed, slots, acquired, data, poolVars, done, ctxDone, size, ret, cycles, err>>

\* ConfirmLockRequest after which the worker goes on to release the token
\* without waiting for the unlock request
ConfirmLockRequest_NoPause(w, p) ==
    /\ At(w, "W_confirm")
    /\ pc[p] = "Lock_wait"
    /\ TplOf(w) = TplOf(p)
    /\ pc' = [pc EXCEPT ![w] = "W_release1", ![p] = "locked"]
    /\ err' = [err EXCEPT ![p] = "nil"]
    /\ UNCHANGED <<cfg, cleared, mu, closed, slots, acquired, data, poolVars, chanVars, ctxDone, sem, size, ret, cycles>>

\* ConfirmLockRequest on a confirm channel with a buffer: the send goes
\* through with no locker receiving
ConfirmLockRequest_Buffered(w, p) ==
    /\ At(w, "W_confirm")
    /\ TplOf(w) = TplOf(p)
    /\ pc' = [pc EXCEPT ![w] = "W_pollUnlock"]
    /\ UNCHANGED <<cfg, cleared, mu, closed, slots, acquired, data, poolVars, chanVars, ctxDone, sem, size, ret, cycles, err>>

\* tpl.ConfirmLockRequest() of worker w meets <-tpl.confirm of locker p:
\* the send and the receive on the unbuffered channel are one step, after
\* which Lock returns nil
ConfirmLockRequest(w, p) ==
    /\ At(w, "W_confirm")
    /\ "confirm" \notin closed[TplOf(w)]
    /\ pc[p] = "Lock_wait"
    /\ TplOf(w) = TplOf(p)
    /\ pc' = [pc EXCEPT ![w] = "W_pollUnlock", ![p] = "locked"]
    /\ err' = [err EXCEPT ![p] = "nil"]
    /\ UNCHANGED <<cfg, cleared, mu, closed, slots, acquired, data, poolVars, chanVars, ctxDone, sem, size, ret, cycles>>

\* HasUnlockRequest that reports an unlock request when there is none
HasUnlockRequest_Always(w) ==
    /\ At(w, "W_pollUnlock")
    /\ pc' = [pc EXCEPT ![w] = "W_release1"]
    /\ UNCHANGED <<cfg, cleared, mu, closed, slots, acquired, data, poolVars, chanVars, ctxDone, sem, size, ret, cycles, err>>

\* tpl.HasUnlockRequest() in the inner loop, which sleeps and polls again
\* until it is true
HasUnlockRequest(w) ==
    /\ At(w, "W_pollUnlock")
    /\ done[TplOf(w)] > 0
    /\ pc' = [pc EXCEPT ![w] = "W_consumeUnlock"]
    /\ UNCHANGED <<cfg, cleared, mu, closed, slots, acquired, data, poolVars, chanVars, ctxDone, sem, size, ret, cycles, err>>

\* ConsumeUnlockRequest that leaves the signal in the done channel
ConsumeUnlockRequest_Peek(w) ==
    /\ At(w, "W_consumeUnlock")
    /\ done[TplOf(w)] > 0
    /\ pc' = [pc EXCEPT ![w] = "W_release1"]
    /\ UNCHANGED <<cfg, cleared, mu, closed, slots, acquired, data, poolVars, chanVars, ctxDone, sem, size, ret, cycles, err>>

\* tpl.ConsumeUnlockRequest(), i.e. <-tpl.done
ConsumeUnlockRequest(w) ==
    /\ At(w, "W_consumeUnlock")
    /\ done[TplOf(w)] > 0
    /\ done' = [done EXCEPT ![TplOf(w)] = @ - 1]
    /\ pc' = [pc EXCEPT ![w] = "W_release1"]
    /\ UNCHANGED <<cfg, cleared, mu, closed, slots, acquired, data, poolVars, request, ctxDone, sem, size, ret, cycles, err>>

\* tpl.Release(sem), called twice by the loop: tpl.memPool.Put(sem)
Release(w) ==
    /\ At(w, "W_release1") \/ At(w, "W_release2")
    /\ pc' = [pc EXCEPT ![w] = "Put_track"]
    /\ ret' = [ret EXCEPT ![w] = IF pc[w] = "W_release1" THEN "W_release2" ELSE "W_ctx"]
    /\ UNCHANGED <<cfg, cleared, mu, closed, slots, acquired, data, poolVars, chanVars, ctxDone, sem, size, cycles, err>>

\* the select on ctx.Done() at the bottom of the loop, after the releases
LoopCtx(w) ==
    /\ At(w, "W_ctx")
    /\ pc' = [pc EXCEPT ![w] = IF ctxDone THEN "W_stopped" ELSE "W_poll"]
    /\ sem' = [sem EXCEPT ![w] = NoSem]
    /\ UNCHANGED <<cfg, cleared, mu, closed, slots, acquired, data, poolVars, chanVars, ctxDone, size, ret, cycles, err>>

\* cancel(), called by the test once every locker has run all its cycles
Cancel ==
    /\ ~Panicked
    /\ ~ctxDone
    /\ Lockers # {}
    /\ \A p \in Lockers : pc[p] = "L_done"
    /\ ctxDone' = TRUE
    /\ UNCHANGED <<cfg, cleared, mu, closed, slots, acquired, data, poolVars, chanVars, pc, sem, size, ret, cycles, err>>

----------------------------------------------------------------------------
(* ThreePointLock.Close and what the other calls do on closed channels *)

\* the channels of a lock in the order in which Close closes them
CloseOrder == <<"request", "confirm", "done">>
AllChannels == {"request", "confirm", "done"}

\* Close is called
CloseCall(x) ==
    /\ At(x, "X_idle")
    /\ pc' = [pc EXCEPT ![x] = "Close_1"]
    /\ UNCHANGED <<cfg, cleared, mu, closed, slots, acquired, data, poolVars, chanVars, ctxDone, sem, size, ret, cycles, err>>

\* close(tpl.request), close(tpl.confirm), close(tpl.done), one a step; the
\* close of a closed channel panics; after the third Close returns
Close(x) ==
    /\ \E i \in 1..3 :
          /\ At(x, IF i = 1 THEN "Close_1" ELSE IF i = 2 THEN "Close_2" ELSE "Close_3")
          /\ IF CloseOrder[i] \in closed[TplOf(x)]
             THEN /\ pc' = [pc EXCEPT ![x] = "panic"]
                  /\ UNCHANGED <<closed, cycles>>
             ELSE /\ closed' = [closed EXCEPT ![TplOf(x)] = @ \cup {CloseOrder[i]}]
                  /\ pc' = [pc EXCEPT ![x] =
                        IF i = 1 THEN "Close_2" ELSE IF i = 2 THEN "Close_3"
                        ELSE Finish(x, "X_idle", "X_done")]
                  /\ cycles' = [cycles EXCEPT ![x] = IF i = 3 THEN @ - 1 ELSE @]
    /\ UNCHANGED <<cfg, cleared, mu, slots, acquired, data, poolVars, chanVars, ctxDone, sem, size, ret, err>>

\* a send on the closed request channel that goes through as on an open one
LockSendClosed_Succeeds(p) ==
    /\ At(p, "Lock_send")
    /\ "request" \in closed[TplOf(p)]
    /\ pc' = [pc EXCEPT ![p] = "Lock_wait"]
    /\ UNCHANGED <<cfg, cleared, mu, closed, slots, acquired, data, poolVars, chanVars, ctxDone, sem, size, ret, cycles, err>>

\* tpl.request <- sem on the closed channel, be the sender about to send or
\* blocked on the full channel: panic
LockSendClosed(p) ==
    /\ At(p, "Lock_send")
    /\ "request" \in closed[TplOf(p)]
    /\ pc' = [pc EXCEPT ![p] = "panic"]
    /\ UNCHANGED <<cfg, cleared, mu, closed, slots, acquired, data, poolVars, chanVars, ctxDone, sem, size, ret, cycles, err>>

\* <-tpl.confirm on the closed channel yields at once: Lock returns nil
\* with no worker having confirmed
LockWaitClosed(p) ==
    /\ At(p, "Lock_wait")
    /\ "confirm" \in closed[TplOf(p)]
    /\ pc' = [pc EXCEPT ![p] = "locked"]
    /\ err' = [err EXCEPT ![p] = "nil"]
    /\ UNCHANGED <<cfg, cleared, mu, closed, slots, acquired, data, poolVars, chanVars, ctxDone, sem, size, ret, cycles>>

\* tpl.done <- struct{}{} on the closed channel: panic
UnlockSendClosed(p) ==
    /\ At(p, "Unlock_send")
    /\ "done" \in closed[TplOf(p)]
    /\ pc' = [pc EXCEPT ![p] = "panic"]
    /\ UNCHANGED <<cfg, cleared, mu, closed, slots, acquired, data, poolVars, chanVars, ctxDone, sem, size, ret, cycles, err>>

\* tpl.confirm <- struct{}{} on the closed channel: panic
ConfirmClosed(w) ==
    /\ At(w, "W_confirm")
    /\ "confirm" \in closed[TplOf(w)]
    /\ pc' = [pc EXCEPT ![w] = "panic"]
    /\ UNCHANGED <<cfg, cleared, mu, closed, slots, acquired, data, poolVars, chanVars, ctxDone, sem, size, ret, cycles, err>>

----------------------------------------------------------------------------
(* Semaphore *)

\* NoLimit denotes no limit imposed on the concurrency
NoLimit == 0

\* cap(l): New(n) makes a channel of capacity n for n > 0 and leaves l nil,
\* of capacity 0, otherwise
Cap == IF cfg.semN > 0 THEN cfg.semN ELSE 0

\* a send on l can proceed: l is not nil and not full
CanSend == cfg.semN > 0 /\ slots < Cap

\* a goroutine calls Add, TryAdd or TryAddFor, or Done for a slot it took with
\* Add, or a release function it got from TryAdd or TryAddFor
SemCall(u) ==
    /\ At(u, "S_idle")
    /\ \E op \in {"Add", "TryAdd", "TryAddFor"} \cup
                 (IF acquired[u].add > 0 THEN {"Done"} ELSE {}) \cup
                 (IF acquired[u].fn > 0 THEN {"release"} ELSE {}) :
          pc' = [pc EXCEPT ![u] = op]
    /\ cycles' = [cycles EXCEPT ![u] = @ - 1]
    /\ UNCHANGED <<cfg, cleared, mu, closed, slots, acquired, data, poolVars, chanVars, ctxDone, sem, size, ret, err>>

\* Add: l <- struct{}{} if cap(l) > 0, else nothing
Add(u) ==
    /\ At(u, "Add")
    /\ IF Cap > 0
       THEN /\ slots < Cap
            /\ slots' = slots + 1
       ELSE UNCHANGED slots
    /\ acquired' = [acquired EXCEPT ![u].add = @ + 1]
    /\ pc' = [pc EXCEPT ![u] = IF cycles[u] > 0 THEN "S_idle" ELSE "S_done"]
    /\ UNCHANGED <<cfg, cleared, mu, closed, data, poolVars, chanVars, ctxDone, sem, size, ret, cycles, err>>

\* Done: <-l if cap(l) > 0, else nothing
Done(u) ==
    /\ At(u, "Done")
    /\ IF Cap > 0
       THEN /\ slots > 0
            /\ slots' = slots - 1
       ELSE UNCHANGED slots
    /\ acquired' = [acquired EXCEPT ![u].add = @ - 1]
    /\ pc' = [pc EXCEPT ![u] = IF cycles[u] > 0 THEN "S_idle" ELSE "S_done"]
    /\ UNCHANGED <<cfg, cleared, mu, closed, data, poolVars, chanVars, ctxDone, sem, size, ret, cycles, err>>

\* TryAdd that takes a slot without regard to the capacity
TryAdd_Overfill(u) ==
    /\ At(u, "TryAdd")
    /\ slots' = slots + 1
    /\ acquired' = [acquired EXCEPT ![u].fn = @ + 1]
    /\ err' = [err EXCEPT ![u] = "nil"]
    /\ pc' = [pc EXCEPT ![u] = IF cycles[u] > 0 THEN "S_idle" ELSE "S_done"]
    /\ UNCHANGED <<cfg, cleared, mu, closed, data, poolVars, chanVars, ctxDone, sem, size, ret, cycles>>

\* TryAdd: select with the send on l and a default case
TryAdd(u) ==
    /\ At(u, "TryAdd")
    /\ IF CanSend
       THEN /\ slots' = slots + 1
            /\ acquired' = [acquired EXCEPT ![u].fn = @ + 1]
            /\ err' = [err EXCEPT ![u] = "nil"]
       ELSE /\ err' = [err EXCEPT ![u] = "ErrNoSlotAvailable"]
            /\ UNCHANGED <<slots, acquired>>
    /\ pc' = [pc EXCEPT ![u] = IF cycles[u] > 0 THEN "S_idle" ELSE "S_done"]
    /\ UNCHANGED <<cfg, cleared, mu, closed, data, poolVars, chanVars, ctxDone, sem, size, ret, cycles>>

\* TryAddFor whose timeout leaves a slot occupied
TryAddFor_Leak(u) ==
    /\ At(u, "TryAddFor")
    /\ \/ /\ CanSend
          /\ slots' = slots + 1
          /\ acquired' = [acquired EXCEPT ![u].fn = @ + 1]
          /\ err' = [err EXCEPT ![u] = "nil"]
       \/ /\ err' = [err EXCEPT ![u] = "ErrNoSlotAvailable"]
          /\ slots' = IF CanSend THEN slots + 1 ELSE slots
          /\ UNCHANGED acquired
    /\ pc' = [pc EXCEPT ![u] = IF cycles[u] > 0 THEN "S_idle" ELSE "S_done"]
    /\ UNCHANGED <<cfg, cleared, mu, closed, data, poolVars, chanVars, ctxDone, sem, size, ret, cycles>>

\* TryAddFor: select with the send on l and the end of the timeout, which
\* can come at any moment
TryAddFor(u) ==
    /\ At(u, "TryAddFor")
    /\ \/ /\ CanSend
          /\ slots' = slots + 1
          /\ acquired' = [acquired EXCEPT ![u].fn = @ + 1]
          /\ err' = [err EXCEPT ![u] = "nil"]
       \/ /\ err' = [err EXCEPT ![u] = "ErrNoSlotAvailable"]
          /\ UNCHANGED <<slots, acquired>>
    /\ pc' = [pc EXCEPT ![u] = IF cycles[u] > 0 THEN "S_idle" ELSE "S_done"]
    /\ UNCHANGED <<cfg, cleared, mu, closed, data, poolVars, chanVars, ctxDone, sem, size, ret, cycles>>

\* the function returned by TryAdd and TryAddFor: func() { <-l }
SemRelease(u) ==
    /\ At(u, "release")
    /\ slots > 0
    /\ slots' = slots - 1
    /\ acquired' = [acquired EXCEPT ![u].fn = @ - 1]
    /\ pc' = [pc EXCEPT ![u] = IF cycles[u] > 0 THEN "S_idle" ELSE "S_done"]
    /\ UNCHANGED <<cfg, cleared, mu, closed, data, poolVars, chanVars, ctxDone, sem, size, ret, cycles, err>>

InitSem ==
    \E n \in NoLimit..MaxSemN, k \in 1..MaxSemUsers :
        InitFrom(SemCfg(k, n, MaxSemCalls \div k))

NextSem ==
    \/ \E u \in SemUsers : SemCall(u)
    \/ \E u \in SemUsers : Add(u)
    \/ \E u \in SemUsers : Done(u)
    \/ \E u \in SemUsers : TryAdd(u)
    \/ \E u \in SemUsers : TryAddFor(u)
    \/ \E u \in SemUsers : SemRelease(u)

SpecSem == InitSem /\ [][NextSem]_vars

----------------------------------------------------------------------------
(* One lock without timeout and hooks, one worker loop, several lockers *)

Init ==
    \E n \in 1..MaxPool, k \in 1..MaxLockers :
        InitFrom(LockCfg(1, k, 1, n, MaxCycles, 1, "nil", "nil", FALSE))

Next ==
    \/ \E p \in Procs : GetRecv(p)
    \/ \E p \in Procs : GetTrack(p)
    \/ \E p \in Procs : PutTrack(p)
    \/ \E p \in Procs : PutSend(p)
    \/ \E p \in Lockers : LockCall(p)
    \/ \E p \in Lockers : LockSend(p)
    \/ \E p \in Lockers : UnlockCall(p)
    \/ \E p \in Lockers : UnlockSend(p)
    \/ \E w \in Workers : HasLockRequest(w)
    \/ \E w \in Workers : ConsumeLockRequest(w)
    \/ \E w \in Workers, p \in Lockers : ConfirmLockRequest(w, p)
    \/ \E w \in Workers : HasUnlockRequest(w)
    \/ \E w \in Workers : ConsumeUnlockRequest(w)
    \/ \E w \in Workers : Release(w)
    \/ \E w \in Workers : LoopCtx(w)
    \/ Cancel

Spec == Init /\ [][Next]_vars

----------------------------------------------------------------------------
(* Scheduling: the goroutines that can take a step are not all acquired up      *)
(* forever.  (A poll that finds nothing changes no state and is no step.)   *)

Fairness == WF_vars(Next)

----------------------------------------------------------------------------
(* TestSimpleLock/single: NewThreePointLock(), one loop, one locker *)

InitSingle == InitFrom(LockCfg(1, 1, 1, 1, NCyclesSingle, 1, "nil", "nil", FALSE))

SpecSingle == InitSingle /\ [][Next]_vars /\ Fairness

----------------------------------------------------------------------------
(* TestSimpleLock/multiple: one lock over NewMemPoolLimitUnique(N, 1), N   *)
(* loops and N lockers                                                     *)

InitMulti ==
    \E n \in 2..MaxConc :
        InitFrom(LockCfg(1, n, n, n, MaxWorkMulti \div n, 1, "nil", "nil", FALSE))

SpecMulti == InitMulti /\ [][Next]_vars /\ Fairness

----------------------------------------------------------------------------
(* N lock instances, each backed by a pool of N of its own and served by   *)
(* its own worker loop, one locker running its cycles on each              *)

InitInst ==
    \E n \in 2..MaxInst :
        InitFrom(LockCfg(n, 1, 1, n, MaxWorkInst \div n, 1, "nil", "nil", FALSE))

SpecInst == InitInst /\ [][Next]_vars /\ Fairness

----------------------------------------------------------------------------
(* One lock with a timeout and a pre-lock hook that can fail, one worker   *)

InitFail ==
    \E n \in 1..MaxFailPool, k \in 1..MaxFailLockers :
        InitFrom(LockCfg(1, k, 1, n, MaxWorkFail \div k, 1, "fn", "nil", TRUE))

NextFail ==
    \/ \E p \in Procs : GetRecv(p)
    \/ \E p \in Procs : GetTrack(p)
    \/ \E p \in Procs : PutTrack(p)
    \/ \E p \in Procs : PutSend(p)
    \/ \E p \in Lockers : LockCall(p)
    \/ \E p \in Lockers : LockSend(p)
    \/ \E p \in Lockers : UnlockCall(p)
    \/ \E p \in Lockers : UnlockSend(p)
    \/ \E w \in Workers : HasLockRequest(w)
    \/ \E w \in Workers : ConsumeLockRequest(w)
    \/ \E w \in Workers, p \in Lockers : ConfirmLockRequest(w, p)
    \/ \E w \in Workers : HasUnlockRequest(w)
    \/ \E w \in Workers : ConsumeUnlockRequest(w)
    \/ \E w \in Workers : Release(w)
    \/ \E w \in Workers : LoopCtx(w)
    \/ Cancel
    \/ \E p \in Lockers : LockRequestFn(p)
    \/ \E p \in Lockers : LockTimeout(p)
    \/ \E p \in Lockers : LockFail(p)

SpecFail == InitFail /\ [][NextFail]_vars

----------------------------------------------------------------------------
(* One lock with a timeout and no hooks, one worker *)

InitTimeout ==
    \E n \in 1..MaxFailPool, k \in 1..MaxFailLockers :
        InitFrom(LockCfg(1, k, 1, n, MaxWorkFail \div k, 1, "nil", "nil", TRUE))

NextTimeout ==
    \/ \E p \in Procs : GetRecv(p)
    \/ \E p \in Procs : GetTrack(p)
    \/ \E p \in Procs : PutTrack(p)
    \/ \E p \in Procs : PutSend(p)
    \/ \E p \in Lockers : LockCall(p)
    \/ \E p \in Lockers : LockSend(p)
    \/ \E p \in Lockers : UnlockCall(p)
    \/ \E p \in Lockers : UnlockSend(p)
    \/ \E w \in Workers : HasLockRequest(w)
    \/ \E w \in Workers : ConsumeLockRequest(w)
    \/ \E w \in Workers, p \in Lockers : ConfirmLockRequest(w, p)
    \/ \E w \in Workers : HasUnlockRequest(w)
    \/ \E w \in Workers : ConsumeUnlockRequest(w)
    \/ \E w \in Workers : Release(w)
    \/ \E w \in Workers : LoopCtx(w)
    \/ Cancel
    \/ \E p \in Lockers : LockTimeout(p)
    \/ \E p \in Lockers : LockFail(p)

SpecTimeout == InitTimeout /\ [][NextTimeout]_vars

----------------------------------------------------------------------------
(* One lock with a post-unlock hook that can fail, one worker *)

InitUnlockHook ==
    \E n \in 1..MaxFailPool, k \in 1..MaxFailLockers :
        InitFrom(LockCfg(1, k, 1, n, MaxWorkFail \div k, 1, "nil", "fn", FALSE))

NextUnlockHook ==
    \/ \E p \in Procs : GetRecv(p)
    \/ \E p \in Procs : GetTrack(p)
    \/ \E p \in Procs : PutTrack(p)
    \/ \E p \in Procs : PutSend(p)
    \/ \E p \in Lockers : LockCall(p)
    \/ \E p \in Lockers : LockSend(p)
    \/ \E p \in Lockers : UnlockCall(p)
    \/ \E p \in Lockers : UnlockSend(p)
    \/ \E p \in Lockers : UnlockRequestFn(p)
    \/ \E p \in Lockers : UnlockReturn(p)
    \/ \E w \in Workers : HasLockRequest(w)
    \/ \E w \in Workers : ConsumeLockRequest(w)
    \/ \E w \in Workers, p \in Lockers : ConfirmLockRequest(w, p)
    \/ \E w \in Workers : HasUnlockRequest(w)
    \/ \E w \in Workers : ConsumeUnlockRequest(w)
    \/ \E w \in Workers : Release(w)
    \/ \E w \in Workers : LoopCtx(w)
    \/ Cancel

SpecUnlockHook == InitUnlockHook /\ [][NextUnlockHook]_vars

----------------------------------------------------------------------------
(* One lock with a timeout and both hooks, which can fail, used through    *)
(* MustLock and MustUnlock, one worker                                     *)

InitMust ==
    \E n \in 1..MaxFailPool, k \in 1..MaxFailLockers :
        InitFrom(LockCfg(1, k, 1, n, MaxWorkFail \div k, 1, "fn", "fn", TRUE))

NextMust ==
    \/ \E p \in Procs : GetRecv(p)
    \/ \E p \in Procs : GetTrack(p)
    \/ \E p \in Procs : PutTrack(p)
    \/ \E p \in Procs : PutSend(p)
    \/ \E p \in Lockers : LockCall(p)
    \/ \E p \in Lockers : LockSend(p)
    \/ \E p \in Lockers : LockRequestFn(p)
    \/ \E p \in Lockers : LockTimeout(p)
    \/ \E p \in Lockers : MustLock(p)
    \/ \E p \in Lockers : UnlockCall(p)
    \/ \E p \in Lockers : UnlockSend(p)
    \/ \E p \in Lockers : UnlockRequestFn(p)
    \/ \E p \in Lockers : MustUnlock(p)
    \/ \E w \in Workers : HasLockRequest(w)
    \/ \E w \in Workers : ConsumeLockRequest(w)
    \/ \E w \in Workers, p \in Lockers : ConfirmLockRequest(w, p)
    \/ \E w \in Workers : HasUnlockRequest(w)
    \/ \E w \in Workers : ConsumeUnlockRequest(w)
    \/ \E w \in Workers : Release(w)
    \/ \E w \in Workers : LoopCtx(w)
    \/ Cancel

SpecMust == InitMust /\ [][NextMust]_vars

----------------------------------------------------------------------------
(* One lock without timeout and hooks, one worker, and a goroutine that    *)
(* calls Close at any time.  (With one worker the receives of the loop,    *)
(* which follow a positive length check, find their element buffered, so   *)
(* that a receive from a closed and empty channel does not occur.)         *)

InitClose ==
    \E n \in 1..MaxFailPool, k \in 1..MaxFailLockers :
        InitFrom(WithCloser(LockCfg(1, k, 1, n, MaxWorkFail \div k, 1, "nil", "nil", FALSE),
                            MaxClose))

NextClose ==
    \/ \E p \in Procs : GetRecv(p)
    \/ \E p \in Procs : GetTrack(p)
    \/ \E p \in Procs : PutTrack(p)
    \/ \E p \in Procs : PutSend(p)
    \/ \E p \in Lockers : LockCall(p)
    \/ \E p \in Lockers : LockSend(p)
    \/ \E p \in Lockers : LockSendClosed(p)
    \/ \E p \in Lockers : LockWaitClosed(p)
    \/ \E p \in Lockers : UnlockCall(p)
    \/ \E p \in Lockers : UnlockSend(p)
    \/ \E p \in Lockers : UnlockSendClosed(p)
    \/ \E w \in Workers : HasLockRequest(w)
    \/ \E w \in Workers : ConsumeLockRequest(w)
    \/ \E w \in Workers, p \in Lockers : ConfirmLockRequest(w, p)
    \/ \E w \in Workers : ConfirmClosed(w)
    \/ \E w \in Workers : HasUnlockRequest(w)
    \/ \E w \in Workers : ConsumeUnlockRequest(w)
    \/ \E w \in Workers : Release(w)
    \/ \E w \in Workers : LoopCtx(w)
    \/ \E x \in Closers : CloseCall(x)
    \/ \E x \in Closers : Close(x)
    \/ Cancel

SpecClose == InitClose /\ [][NextClose]_vars

----------------------------------------------------------------------------
(* A pool used directly: every client Puts what it got from Get, once      *)

InitPool ==
    \E k \in 1..MaxClients, n \in 1..MaxPoolN : InitFrom(PoolCfg(k, n, MaxWorkPool \div k, 1, FALSE))

NextPool ==
    \/ \E p \in Procs : GetRecv(p)
    \/ \E p \in Procs : GetTrack(p)
    \/ \E p \in Procs : PutTrack(p)
    \/ \E p \in Procs : PutSend(p)
    \/ \E p \in Clients : ClientGet(p)
    \/ \E p \in Clients : ClientPut(p)

SpecPool == InitPool /\ [][NextPool]_vars

\* the same with the scheduling assumption: some goroutine that can take a
\* step does
SpecPoolFair == InitPool /\ [][NextPool]_vars /\ WF_vars(NextPool)

(* A pool used directly: every client Puts what it got from Get, twice     *)

InitPoolDup ==
    \E k \in 1..MaxClients, n \in 1..MaxPoolN : InitFrom(PoolCfg(k, n, MaxWorkPool \div k, 1, TRUE))

NextPoolDup ==
    \/ \E p \in Procs : GetRecv(p)
    \/ \E p \in Procs : GetTrack(p)
    \/ \E p \in Procs : PutTrack(p)
    \/ \E p \in Procs : PutSend(p)
    \/ \E p \in Clients : ClientGet(p)
    \/ \E p \in Clients : ClientPut(p)
    \/ \E p \in Clients : ClientPutAgain(p)

SpecPoolDup == InitPoolDup /\ [][NextPoolDup]_vars

----------------------------------------------------------------------------
(* A pool whose clients write to, resize and return the buffer they got    *)
(* from Get, or hand the pool a buffer it does not track                   *)

InitResize ==
    \E n \in 1..MaxPoolN, k \in 1..MaxResizeClients :
        /\ MaxWorkResize \div (2 * k) >= 1
        /\ InitFrom(PoolCfg(k, n, MaxWorkResize \div (2 * k), 1, FALSE))

NextResize ==
    \/ \E p \in Clients : ClientGet(p)
    \/ \E p \in Clients : GetRecv(p)
    \/ \E p \in Clients : GetTrack(p)
    \/ \E p \in Clients : ClientWrite(p)
    \/ \E p \in Clients : ClientResize(p)
    \/ \E p \in Clients : Resize(p)
    \/ \E p \in Clients : ClientForeign(p)
    \/ \E p \in Clients : ClientPut(p)
    \/ \E p \in Clients : PutTrack(p)
    \/ \E p \in Clients : PutSend(p)

SpecResize == InitResize /\ [][NextResize]_vars

(* A pool of one buffer whose clients may outgrow the buffer they got from  *)
(* Get and Put it twice                                                    *)

\* a goroutine of the pool is between two calls of the pool
BetweenCalls(r) == pc[r] \in {"C_idle", "C_hold", "C_released", "C_done"}

\* Clear that sets only the queue to nil and keeps the tracking map
Clear_KeepTracker(p) ==
    /\ \E l \in {"C_idle", "C_hold"} : At(p, l)
    /\ \A r \in Clients : PoolOf(r) = PoolOf(p) => BetweenCalls(r)
    /\ cleared' = [cleared EXCEPT ![PoolOf(p)] = TRUE]
    /\ elements' = [elements EXCEPT ![PoolOf(p)] = <<>>]
    /\ UNCHANGED <<cfg, mu, closed, slots, acquired, data, tracker, nextId, chanVars, ctxDone, pc, sem, size, ret, cycles, err>>

\* p.elements = nil; p.tracker = nil. Clear takes no mutex and nothing
\* orders it with a call in progress, so it is called while the goroutines
\* of the pool are between calls; buffers handed out earlier stay with
\* their holders
Clear(p) ==
    /\ \E l \in {"C_idle", "C_hold"} : At(p, l)
    /\ \A r \in Clients : PoolOf(r) = PoolOf(p) => BetweenCalls(r)
    /\ cleared' = [cleared EXCEPT ![PoolOf(p)] = TRUE]
    /\ elements' = [elements EXCEPT ![PoolOf(p)] = <<>>]
    /\ tracker' = [tracker EXCEPT ![PoolOf(p)] = <<>>]
    /\ UNCHANGED <<cfg, mu, closed, slots, acquired, data, nextId, chanVars, ctxDone, pc, sem, size, ret, cycles, err>>

InitClear ==
    \E k \in 1..MaxClearClients, n \in 1..MaxClearPool :
        InitFrom(PoolCfg(k, n, MaxWorkClear \div k, 1, FALSE))

NextClear ==
    \/ \E p \in Clients : ClientGet(p)
    \/ \E p \in Clients : GetRecv(p)
    \/ \E p \in Clients : GetTrack(p)
    \/ \E p \in Clients : ClientGrow(p)
    \/ \E p \in Clients : Resize(p)
    \/ \E p \in Clients : ClientPut(p)
    \/ \E p \in Clients : PutTrack(p)
    \/ \E p \in Clients : PutSend(p)
    \/ \E p \in Clients : Clear(p)

SpecClear == InitClear /\ [][NextClear]_vars

InitResizeDup ==
    \E k \in 1..MaxResizeClients :
        InitFrom(PoolCfg(k, 1, MaxWorkResizeDup \div k, 1, TRUE))

NextResizeDup ==
    \/ \E p \in Clients : ClientGet(p)
    \/ \E p \in Clients : GetRecv(p)
    \/ \E p \in Clients : GetTrack(p)
    \/ \E p \in Clients : ClientGrow(p)
    \/ \E p \in Clients : Resize(p)
    \/ \E p \in Clients : ClientPut(p)
    \/ \E p \in Clients : ClientPutAgain(p)
    \/ \E p \in Clients : PutTrack(p)
    \/ \E p \in Clients : PutSend(p)

SpecResizeDup == InitResizeDup /\ [][NextResizeDup]_vars

----------------------------------------------------------------------------
(* Properties of the lock served by one worker (Spec) *)

\* a locker between a successful return of Lock and its call of Unlock
Holding(p) == pc[p] = "locked"

\* a worker between the return of ConfirmLockRequest and the return of
\* ConsumeUnlockRequest
Paused(w) == pc[w] \in {"W_pollUnlock", "W_consumeUnlock"}

\* C1: while a locker is between the successful return of Lock and its call
\* of Unlock, the worker of its lock is paused: it has confirmed and has not
\* yet returned from ConsumeUnlockRequest.
C1_WorkerPausedWhileHeld ==
    \A p \in Lockers : Holding(p) =>
        \A w \in Workers : TplOf(w) = TplOf(p) => Paused(w)

\* a locker holds the lock of a pool of two while a second locker has
\* already published the next request
C1_Witness ==
    /\ cfg.n = 2
    /\ \E p \in Lockers, q \in Lockers :
          /\ p # q /\ Holding(p) /\ pc[q] = "Lock_wait"
          /\ \E w \in Workers : pc[w] = "W_pollUnlock" /\ sem[w].id = sem[p].id

\* C2: concurrent lockers are serialized: at most one locker at a time is
\* between a successful return of Lock and its call of Unlock.
C2_AtMostOneHolder ==
    \A l \in Locks : Cardinality({p \in Lockers : TplOf(p) = l /\ Holding(p)}) <= 1

\* a locker holds the lock for its second cycle while the other locker, with
\* a token of its own, waits for the confirmation
C2_Witness ==
    \E p \in Lockers, q \in Lockers :
        /\ p # q /\ Holding(p) /\ cycles[p] < cfg.cycles
        /\ pc[q] = "Lock_wait" /\ sem[q].id # sem[p].id

\* the cycles of lock l in flight: request sent and not yet confirmed,
\* confirmed and not yet unlocked, or done and not yet consumed by the worker
InFlight(l) ==
    Cardinality({p \in Lockers :
                    TplOf(p) = l /\ pc[p] \in {"Lock_hook", "Lock_wait", "locked"}})
        + done[l]

\* C3 as stated: while one cycle is RequestSent, Confirmed or Done, no second
\* cycle enters RequestSent, so at most one cycle is in flight.
C3_OneCycleInFlight == \A l \in Locks : InFlight(l) <= 1

\* C3 as amended: the request channel never holds more than one token, so a
\* second Lock call does not complete its send while a request is pending.
C3_OneRequestPending == \A l \in Locks : Len(request[l]) <= 1

\* a second locker is blocked in its send while the request of the first is
\* still in the channel
C3_Witness ==
    \E p \in Lockers :
        /\ pc[p] = "Lock_send"
        /\ Len(request[TplOf(p)]) = 1
        /\ Head(request[TplOf(p)]).id # sem[p].id

----------------------------------------------------------------------------
(* Completion of the test runs (SpecSingle, SpecMulti) *)

\* every locker has returned from the last Unlock of its last cycle
AllLockersDone == \A p \in Lockers : pc[p] = "L_done" /\ cycles[p] = 0

\* no goroutine has panicked and no Lock or Unlock has returned an error
NoFailure == \A p \in Procs : pc[p] # "panic" /\ err[p] \in {"none", "nil"}

\* C4: on the default-constructed lock one locker completes its N
\* sequential Lock/Unlock cycles against one worker loop that releases every
\* token twice: no call fails and, under fair scheduling, the locker
\* finishes.
C4_SingleCompletes == []NoFailure /\ <>AllLockersDone

\* the locker has finished all its cycles, the last Unlock returned nil and
\* the cancelled worker loop has returned
C4_Witness ==
    /\ AllLockersDone
    /\ \A p \in Lockers : err[p] = "nil"
    /\ \A w \in Workers : pc[w] = "W_stopped"
    /\ cfg.n = 1 /\ cfg.cycles = NCyclesSingle

\* C5: on one lock over a pool of N shared by N worker loops and N lockers
\* no Lock or Unlock fails, nothing panics and, under fair scheduling, every
\* locker finishes all its cycles.
C5_MultiCompletes ==
    /\ [](\A p \in Procs : pc[p] # "panic" /\ err[p] \in {"none", "nil"})
    /\ <>(Cardinality(Lockers) >= 2 /\ \A p \in Lockers : pc[p] = "L_done")

\* all lockers have finished although one worker lost the race for a
\* request and is still blocked in ConsumeLockRequest
C5_Witness ==
    /\ AllLockersDone
    /\ Cardinality(Lockers) >= 2 /\ Cardinality(Workers) = Cardinality(Lockers)
    /\ \A p \in Lockers : err[p] = "nil"
    /\ \E w \in Workers : pc[w] = "W_consume"

\* C6: with N lock instances, each over a pool of N of its own and with a
\* dedicated worker, the cycles run concurrently on all instances complete:
\* nothing panics or fails and every instance's lockers finish.
C6_InstancesComplete ==
    /\ [](\A p \in Procs : pc[p] # "panic" /\ err[p] # "ErrLockConfirmTimeout")
    /\ <>(\A l \in Locks : \A p \in Lockers : TplOf(p) = l => pc[p] = "L_done")

\* all instances have completed their cycles, each from a pool of its own
C6_Witness ==
    /\ Cardinality(Locks) >= 2 /\ Cardinality(Pools) = Cardinality(Locks)
    /\ cfg.n = Cardinality(Locks)
    /\ \A l \in Locks : \E p \in Lockers : TplOf(p) = l /\ cycles[p] = 0 /\ err[p] = "nil"
    /\ AllLockersDone
    /\ \A q \in Pools : Len(elements[q]) = cfg.n

----------------------------------------------------------------------------
(* Properties of the pool used directly (SpecPool, SpecPoolDup) *)

\* a client has a buffer checked out: it has received it in Get and has not
\* yet handed it back in the tracked section of its Put
CheckedOut(p) ==
    \/ pc[p] \in {"Get_track", "C_hold"}
    \/ pc[p] = "Put_track" /\ (cfg.kind[p] = "client" \/ ret[p] = "C_released")

\* C7: when every holder Puts a buffer only after it obtained it from Get,
\* no Get hands out an identity that another caller has checked out, and a
\* checked-out identity is not in the available queue.
C7_NoSharedCheckout ==
    \A p \in Clients : CheckedOut(p) =>
        /\ SeqCount(elements[PoolOf(p)], sem[p].id) = 0
        /\ \A q \in Clients \ {p} : CheckedOut(q) => sem[q].id # sem[p].id

\* two clients hold buffers at the same time, one of them in its second
\* round with a buffer that replaced a smaller one
C7_Witness ==
    \E p \in Clients, q \in Clients :
        /\ p # q /\ pc[p] = "C_hold" /\ pc[q] = "C_hold"
        /\ cycles[p] < cfg.cycles /\ sem[p].cap > cfg.initialElementSize

\* a Put of p that finds its buffer tracked and not checked out
PutOfReleased(p) ==
    /\ pc[p] = "Put_track"
    /\ sem[p].id \in DOMAIN tracker[PoolOf(p)]
    /\ ~tracker[PoolOf(p)][sem[p].id]

\* the only client of a pool has returned from the first or from the second
\* Put of the buffer it got from Get
AfterPut(p) == pc[p] = "C_released"
AfterPutPut(p) == pc[p] \in {"C_idle", "C_done"} /\ cycles[p] < cfg.cycles

\* C8: the tracked section of a Put that finds its buffer not checked out
\* returns from Put at once and leaves queue and tracking map as they were;
\* hence, with no Get in between (a pool with one client), Put;Put leaves the
\* buffer in the queue exactly once and not checked out, as the first Put did.
C8_PutIdempotent ==
    /\ [][\A p \in Procs :
            (PutOfReleased(p) /\ pc'[p] # pc[p]) =>
                (pc'[p] = ret[p] /\ elements' = elements /\ tracker' = tracker)]_vars
    /\ [](Cardinality(Procs) = 1 =>
            \A p \in Clients : (AfterPut(p) \/ AfterPutPut(p)) =>
                /\ SeqCount(elements[PoolOf(p)], sem[p].id) = 1
                /\ ~tracker[PoolOf(p)][sem[p].id]
                /\ Len(elements[PoolOf(p)]) = cfg.n)

\* the only client of a pool of two has put its last buffer twice and the
\* buffer is in the queue once
C8_Witness ==
    /\ Cardinality(Procs) = 1 /\ cfg.n = 2
    /\ \E p \in Clients :
          /\ cfg.kind[p] = "dupclient" /\ pc[p] = "C_done"
          /\ SeqCount(elements[PoolOf(p)], sem[p].id) = 1
          /\ sem[p].cap > cfg.initialElementSize

----------------------------------------------------------------------------
(* Ownership of the tokens of a lock (SpecMulti, SpecFail) *)

\* the token that locker p got from Get has not been released yet: p is
\* between the return of Get and the return of its Unlock
Unreleased(p) == pc[p] \in {"Lock_send", "Lock_hook", "Lock_wait", "locked", "Unlock_send"}

\* C9 as stated, for the part of a cycle in which no Release of that cycle
\* can have been called (the locker has the token from Get and has not sent
\* it yet): with every token released twice, the token is neither in the
\* available queue nor in the hands of another caller that got it from Get,
\* and no more than n tokens are checked out at a time.
C9_NoInflation ==
    /\ \A p \in Lockers : pc[p] = "Lock_send" =>
          /\ SeqCount(elements[PoolOf(p)], sem[p].id) = 0
          /\ \A q \in Lockers \ {p} :
                pc[q] \in {"Get_track", "Lock_send"} => sem[q].id # sem[p].id
    /\ Cardinality({p \in Lockers : Unreleased(p)}) <= cfg.n

\* the number of places token i of pool q is in: the available queue, the
\* request channels, the hands of a locker (from the receive in Get to the
\* send of the request) and the hands of a worker (from ConsumeLockRequest
\* to the send in its first Release)
InQueue(q, i) == SeqCount(elements[q], i)
InRequest(q, i) ==
    Cardinality({l \in Locks : cfg.memPool[l] = q /\ SeqCount(request[l], i) > 0})
InLockerHands(q, i) ==
    Cardinality({p \in Lockers :
        PoolOf(p) = q /\ sem[p].id = i /\ pc[p] \in {"Get_track", "Lock_send"}})
InWorkerHands(q, i) ==
    Cardinality({w \in Workers :
        /\ PoolOf(w) = q /\ sem[w].id = i
        /\ \/ pc[w] \in {"W_confirm", "W_pollUnlock", "W_consumeUnlock", "W_release1"}
           \/ pc[w] \in {"Put_track", "Put_send"} /\ ret[w] = "W_release2"})
Places(q, i) == InQueue(q, i) + InRequest(q, i) + InLockerHands(q, i) + InWorkerHands(q, i)

\* C10 as stated: in every reachable state, also after a Lock that timed out
\* or whose pre-lock hook failed, each token is in exactly one place.
C10_ExclusiveOwnership ==
    \A q \in Pools : \A i \in DOMAIN tracker[q] : Places(q, i) = 1

----------------------------------------------------------------------------
(* The failure paths of Lock (SpecFail) *)

\* the step with which the Put of a failed Lock of p returns
FailedLockReturns(p, e) ==
    pc[p] # "Lock_fail" /\ pc'[p] = "Lock_fail" /\ err'[p] = e

\* C11 as stated: when Lock returns ErrLockConfirmTimeout its token is in
\* the available queue, tracked as not checked out and of the initial
\* element size at least, so that the next Get of that size neither blocks
\* nor allocates.
C11_TimeoutReturnsToken ==
    [][\A p \in Lockers : FailedLockReturns(p, "ErrLockConfirmTimeout") =>
            /\ SeqCount(elements'[PoolOf(p)], sem[p].id) >= 1
            /\ sem[p].id \in DOMAIN tracker'[PoolOf(p)]
            /\ ~tracker'[PoolOf(p)][sem[p].id]
            /\ sem[p].cap >= cfg.initialElementSize]_vars

ConfirmBlocked(w) ==
    pc[w] = "W_confirm" /\ \A p \in Lockers : TplOf(p) = TplOf(w) => pc[p] # "Lock_wait"

\* locker p waits for a confirmation while the request it sent is still in
\* the channel, and worker w is about to confirm a request it consumed before
ConfirmMismatch(w, p) ==
    /\ pc[w] = "W_confirm" /\ pc[p] = "Lock_wait" /\ TplOf(w) = TplOf(p)
    /\ request[TplOf(p)] = <<sem[p]>>

\* C13: a worker in ConfirmLockRequest does not get past it while no Lock
\* call is waiting for confirmation, and when a Lock call whose own request
\* is still unconsumed in the request channel receives the confirmation, it
\* returns nil, the worker goes on to wait for the unlock request, and the
\* caller's request stays in the channel.
C13_LateConfirmMismatch ==
    /\ [][\A w \in Workers : ConfirmBlocked(w) => pc'[w] = pc[w]]_vars
    /\ [][\A w \in Workers, p \in Lockers :
            (ConfirmMismatch(w, p) /\ pc'[w] # pc[w] /\ pc'[p] # pc[p]) =>
                /\ pc'[p] = "locked" /\ err'[p] = "nil"
                /\ pc'[w] = "W_pollUnlock"
                /\ request' = request]_vars

\* after a timed-out Lock the only locker holds the lock on the confirmation
\* of the request it abandoned, its own request unconsumed in the channel
C13_Witness ==
    /\ Cardinality(Lockers) = 1 /\ Cardinality(Workers) = 1
    /\ \E p \in Lockers, w \in Workers :
          /\ cfg.timeout[TplOf(p)]
          /\ pc[p] = "locked" /\ err[p] = "nil"
          /\ request[TplOf(p)] = <<sem[p]>>
          /\ pc[w] = "W_pollUnlock"
          /\ cycles[p] < cfg.cycles

----------------------------------------------------------------------------
(* Order of the three handshake points (Spec) *)

\* locker p has received a confirmation and has not sent its done signal
Confirmed(p) == pc[p] \in {"locked", "Unlock_send"}

----------------------------------------------------------------------------
(* Properties of the pool whose clients resize (SpecResize) *)

\* goroutine p leaves the mutex section of Put or the body of Resize
PoolCallStep(p) == pc[p] \in {"Put_track", "Resize_track"} /\ pc'[p] # pc[p]

\* C15: Put and Resize of a buffer whose identity is not in the tracking map
\* panic, with the queue and the tracking map as they were, and nothing runs
\* after the panic.
C15_UntrackedPanics ==
    /\ [][\A p \in Procs :
            (PoolCallStep(p) /\ sem[p].id \notin DOMAIN tracker[PoolOf(p)]) =>
                (pc'[p] = "panic" /\ elements' = elements /\ tracker' = tracker)]_vars
    /\ [][~Panicked]_vars

\* a client has panicked with one of the pool's initial buffers, whose
\* identity a Resize had replaced
C15_Witness ==
    \E p \in Clients :
        /\ pc[p] = "panic"
        /\ sem[p].id \in PoolIds(cfg, PoolOf(p))
        /\ sem[p].id \notin DOMAIN tracker[PoolOf(p)]
        /\ Len(elements[PoolOf(p)]) = cfg.n - 1

----------------------------------------------------------------------------
(* Get of the pool used directly (SpecPoolFair, SpecPool) *)

\* all n buffers of pool q are checked out: none is in the queue or on its
\* way into it
Exhausted(q) ==
    /\ elements[q] = <<>>
    /\ \A r \in Clients : PoolOf(r) = q => pc[r] # "Put_send"

\* C16: Get never panics; a Get leaves its receive only by taking the head
\* of a non-empty queue, so with all buffers checked out it does not return
\* before a Put has enqueued one; and every Get that waits at its receive
\* returns in the end, the holders being scheduled to Put.
C16_GetBackpressure ==
    /\ [](\A p \in Clients : pc[p] # "panic")
    /\ [][\A p \in Clients : (pc[p] = "Get_recv" /\ pc'[p] # pc[p]) =>
            /\ elements[PoolOf(p)] # <<>>
            /\ elements'[PoolOf(p)] = Tail(elements[PoolOf(p)])
            /\ sem'[p] = Head(elements[PoolOf(p)])]_vars
    /\ [][\A p \in Clients : (pc[p] = "Get_recv" /\ Exhausted(PoolOf(p))) =>
            pc'[p] = "Get_recv"]_vars
    /\ \A p \in 1..MaxClients :
          (p \in Clients /\ pc[p] = "Get_recv") ~> (p \in Clients /\ pc[p] = "C_hold")

\* a Get waits at its receive while the only buffer of the pool is checked
\* out by another client
C16_Witness ==
    \E p \in Clients, r \in Clients :
        /\ p # r /\ cfg.n = 1
        /\ pc[p] = "Get_recv" /\ Exhausted(PoolOf(p))
        /\ pc[r] = "C_hold"

\* the step with which the Get of client p returns
GetReturns(p) == pc[p] = "Get_track" /\ pc'[p] = "C_hold"

\* C17: Get(size) returns a buffer of length size that the map tracks as
\* taken.  If the dequeued buffer has a capacity below size, the result is a
\* newly allocated buffer of capacity 2*size, the dequeued identity has left
\* the map and nothing else in the map has changed; otherwise the result is
\* the dequeued buffer itself and the map has the same identities.  A Get
\* that has dequeued a buffer always returns with its next step.
C17_GetResult ==
    /\ [][\A p \in Clients : (pc[p] = "Get_track" /\ pc'[p] # pc[p]) => GetReturns(p)]_vars
    /\ [][\A p \in Clients : GetReturns(p) =>
            LET q == PoolOf(p)
                old == sem[p]
                new == sem'[p]
            IN  /\ new.len = size[p]
                /\ new.id \in DOMAIN tracker'[q]
                /\ tracker'[q][new.id]
                /\ IF old.cap < size[p]
                   THEN /\ new.cap = 2 * size[p]
                        /\ new.id \notin DOMAIN tracker[q]
                        /\ new.id \notin DOMAIN data[q]
                        /\ data'[q][new.id] = Zeros(2 * size[p])
                        /\ old.id \notin DOMAIN tracker'[q]
                        /\ DOMAIN tracker'[q] = (DOMAIN tracker[q] \ {old.id}) \cup {new.id}
                        /\ \A i \in DOMAIN tracker[q] \ {old.id} : tracker'[q][i] = tracker[q][i]
                   ELSE /\ new.id = old.id
                        /\ new.cap = old.cap
                        /\ DOMAIN tracker'[q] = DOMAIN tracker[q]
                        /\ nextId' = nextId]_vars

\* a client holds a buffer that Get allocated in place of a smaller one,
\* while another buffer that Get handed out as dequeued is acquired, too
C17_Witness ==
    \E p \in Clients, r \in Clients :
        /\ pc[p] = "C_hold" /\ pc[r] = "C_hold"
        /\ sem[p].id \notin PoolIds(cfg, PoolOf(p))
        /\ sem[p].cap = 2 * size[p] /\ sem[p].len = size[p]
        /\ sem[r].id \in PoolIds(cfg, PoolOf(r))
        /\ DOMAIN tracker[PoolOf(p)] = {sem[p].id, sem[r].id}

\* client p has been through Get and Put before and now calls Get with the
\* size of that earlier Get, whose result is still in its variable
SecondGet(p) ==
    /\ pc[p] = "Get_recv"
    /\ cycles[p] < cfg.cycles
    /\ size[p] = sem[p].len

\* C18: Put enqueues the buffer it was given at its full capacity, so every
\* queued buffer has its length equal to its capacity, which is the size of
\* its array; a Get that dequeues a buffer of sufficient capacity allocates
\* nothing and returns that identity with the requested length.  In a pool
\* of one buffer with one client, the Get(size) that follows Get(size) and
\* Put dequeues the very buffer that was put, with a capacity of at least
\* size.
C18_RoundTrip ==
    /\ [](\A q \in Pools : \A k \in 1..Len(elements[q]) :
            LET e == elements[q][k]
            IN  /\ e.len = e.cap
                /\ e.id \in DOMAIN data[q]
                /\ e.cap = Len(data[q][e.id]))
    /\ [][\A p \in Clients : (pc[p] = "Put_send" /\ pc'[p] # pc[p]) =>
            /\ elements'[PoolOf(p)] =
                  Append(elements[PoolOf(p)], Slice(sem[p].id, sem[p].cap, sem[p].cap))
            /\ sem[p].cap >= sem[p].len]_vars
    /\ [][\A p \in Clients : (GetReturns(p) /\ sem[p].cap >= size[p]) =>
            /\ nextId' = nextId /\ data' = data
            /\ sem'[p] = Slice(sem[p].id, size[p], sem[p].cap)]_vars
    /\ [][\A p \in Clients :
            (SecondGet(p) /\ pc'[p] # pc[p] /\ cfg.n = 1 /\ Cardinality(Procs) = 1) =>
                /\ sem'[p].id = sem[p].id
                /\ sem'[p].cap = sem[p].cap
                /\ sem'[p].cap >= size[p]]_vars

\* the only client of a pool of one buffer has got a buffer that Get(2)
\* allocated, has put it back, and calls Get(2) again while the buffer is in
\* the queue at its full capacity
C18_Witness ==
    /\ Cardinality(Procs) = 1 /\ cfg.n = 1
    /\ \E p \in Clients :
          /\ SecondGet(p) /\ size[p] = 2
          /\ sem[p].id \notin PoolIds(cfg, PoolOf(p))
          /\ elements[PoolOf(p)] = <<Slice(sem[p].id, 4, 4)>>

----------------------------------------------------------------------------
(* Resize of a checked-out buffer (SpecResize) *)

\* client p, in elem = p.Resize(elem, size) or with the result dropped, is
\* about to run Resize on a buffer that the pool tracks as taken
ResizeOfCheckedOut(p) ==
    /\ pc[p] = "Resize_track"
    /\ sem[p].id \in DOMAIN tracker[PoolOf(p)]
    /\ tracker[PoolOf(p)][sem[p].id]

\* the first n bytes of the arrays a and b are the same
SamePrefix(a, b, n) == \A k \in 1..n : a[k] = b[k]

\* C19: Resize of a checked-out buffer to a size above its length returns a
\* buffer of that length whose first len(old) bytes are those of the old
\* buffer, be it the same array or a replacement.
C19_ResizePreservesContent ==
    [][\A p \in Clients :
        (ResizeOfCheckedOut(p) /\ ret[p] = "C_assign" /\ size[p] > sem[p].len
            /\ pc'[p] # pc[p]) =>
                /\ pc'[p] = "C_hold"
                /\ sem'[p].len = size[p]
                /\ sem'[p].id \in DOMAIN data'[PoolOf(p)]
                /\ SamePrefix(data'[PoolOf(p)][sem'[p].id],
                              data[PoolOf(p)][sem[p].id], sem[p].len)]_vars

\* C20: Resize of a checked-out buffer leaves the queue as it is; when it
\* returns, the identity of its result is tracked as taken, an identity it
\* replaced is no longer tracked, and every other entry of the map is as
\* before; when it panics, the map is as before.  A buffer is never in the
\* queue twice nor in the queue while tracked as taken, and once the only
\* client of a pool has returned from the Put that ends its round, the buffer
\* it passed is in the queue once and the queue is full.
C20_ResizeKeepsCheckedOut ==
    /\ [][\A p \in Clients : (ResizeOfCheckedOut(p) /\ pc'[p] # pc[p]) =>
            LET q == PoolOf(p)
                old == sem[p].id
                new == IF sem[p].cap < size[p] THEN nextId ELSE old
            IN  /\ elements' = elements
                /\ pc'[p] = "panic" => tracker' = tracker
                /\ pc'[p] # "panic" =>
                      /\ ret[p] = "C_assign" => sem'[p].id = new
                      /\ DOMAIN tracker'[q] = (DOMAIN tracker[q] \ {old}) \cup {new}
                      /\ tracker'[q][new]
                      /\ \A i \in DOMAIN tracker[q] \ {old} : tracker'[q][i] = tracker[q][i]]_vars
    /\ [](\A q \in Pools : \A k \in 1..Len(elements[q]) :
            /\ SeqCount(elements[q], elements[q][k].id) = 1
            /\ elements[q][k].id \in DOMAIN tracker[q]
            /\ ~tracker[q][elements[q][k].id])
    /\ [](Cardinality(Procs) = 1 =>
            \A p \in Clients : (pc[p] \in {"C_idle", "C_done"} /\ cycles[p] < cfg.cycles) =>
                /\ SeqCount(elements[PoolOf(p)], sem[p].id) = 1
                /\ Len(elements[PoolOf(p)]) = cfg.n)

\* the only client of a pool has put back a buffer of three bytes, which is
\* the replacement Resize made for the buffer it had from Get, and the
\* buffer from Get is no longer tracked
C20_Witness ==
    /\ Cardinality(Procs) = 1
    /\ \E p \in Clients :
          /\ pc[p] \in {"C_idle", "C_done"} /\ cycles[p] < cfg.cycles
          /\ sem[p].cap = 3 /\ sem[p].id \notin PoolIds(cfg, PoolOf(p))
          /\ SeqCount(elements[PoolOf(p)], sem[p].id) = 1
          /\ Cardinality(DOMAIN tracker[PoolOf(p)]) = cfg.n
          /\ PoolIds(cfg, PoolOf(p)) \ DOMAIN tracker[PoolOf(p)] # {}

----------------------------------------------------------------------------
(* Unlock with a post-unlock hook (SpecUnlockHook) *)

\* locker p takes the step with which its call leaves statement l
Leaves(p, l) == pc[p] = l /\ pc'[p] # l

\* C21: Unlock sends on the done channel, which it can do as soon as the
\* channel is empty and only then; the hook that runs afterwards changes no
\* channel, its result (nil or its error) is what Unlock returns, and the
\* done signal is taken out of the channel by the worker alone, so the worker
\* finds its unlock request after a failed hook as after a successful one.
C21_UnlockSignals ==
    /\ [](\A p \in Lockers : (pc[p] = "Unlock_send" /\ ~Panicked) =>
            (ENABLED UnlockSend(p) <=> done[TplOf(p)] = 0))
    /\ [][\A p \in Lockers : Leaves(p, "Unlock_send") =>
            /\ done[TplOf(p)] = 0 /\ done'[TplOf(p)] = 1
            /\ pc'[p] = "Unlock_hook"]_vars
    /\ [][\A p \in Lockers : Leaves(p, "Unlock_hook") =>
            /\ done' = done /\ request' = request
            /\ pc'[p] = "Unlock_ret"
            /\ err'[p] \in {"nil", "unlockHookErr"}]_vars
    /\ [][\A p \in Lockers : Leaves(p, "Unlock_ret") =>
            /\ err'[p] = err[p] /\ done' = done
            /\ pc'[p] \in {"L_idle", "L_done"}]_vars
    /\ [][\A l \in Locks : done'[l] < done[l] =>
            \E w \in Workers : TplOf(w) = l /\ Leaves(w, "W_consumeUnlock")]_vars
    /\ [](\A w \in Workers : (pc[w] = "W_pollUnlock" /\ done[TplOf(w)] > 0 /\ ~Panicked) =>
            ENABLED HasUnlockRequest(w))

\* the Unlock of the only locker has returned the error of its hook and the
\* worker has consumed the done signal of that cycle
C21_Witness ==
    /\ Cardinality(Lockers) = 1
    /\ \E p \in Lockers, w \in Workers :
          /\ pc[p] \in {"L_idle", "L_done"} /\ err[p] = "unlockHookErr"
          /\ pc[w] = "W_release1" /\ done[TplOf(w)] = 0

----------------------------------------------------------------------------
(* MustLock and MustUnlock (SpecMust) *)

\* the errors Lock and Unlock can return
LockErrors == {"ErrLockConfirmTimeout", "hookErr"}
UnlockErrors == {"unlockHookErr"}

\* C22: a MustLock whose Lock has failed (timeout or pre-lock hook) and a
\* MustUnlock whose Unlock has failed (post-unlock hook) panic; nothing
\* else does, and no caller goes on with an error in its hands: a caller
\* that goes on holds the lock after MustLock, as after a Lock that returned
\* nil, and has published its done signal after MustUnlock.
C22_MustPanics ==
    /\ [][\A p \in Lockers : Leaves(p, "Lock_fail") =>
            (err[p] \in LockErrors /\ pc'[p] = "panic")]_vars
    /\ [][\A p \in Lockers : Leaves(p, "Unlock_ret") =>
            IF err[p] \in UnlockErrors THEN pc'[p] = "panic"
            ELSE err[p] = "nil" /\ pc'[p] \in {"L_idle", "L_done"}]_vars
    /\ [](\A p \in Procs : pc[p] = "panic" =>
            (p \in Lockers /\ err[p] \in LockErrors \cup UnlockErrors))
    /\ [](\A p \in Lockers : pc[p] \in {"locked", "Unlock_send", "Unlock_hook"} => err[p] = "nil")
    /\ [](\A p \in Lockers : (pc[p] \in {"L_idle", "L_done"} /\ cycles[p] < cfg.cycles) =>
            err[p] = "nil")

\* a MustUnlock has panicked on the error of the post-unlock hook, after a
\* MustLock that returned with the lock acquired
C22_Witness ==
    \E p \in Lockers : pc[p] = "panic" /\ err[p] = "unlockHookErr" /\ done[TplOf(p)] = 1

----------------------------------------------------------------------------
(* Close (SpecClose) *)

\* a Close of lock l has returned
CloseReturned(l) == closed[l] = AllChannels

\* C23: a closed channel stays closed; the request send of a Lock on the
\* closed channel panics, so that a Lock that is called once Close has
\* returned never gets to wait for its confirmation nor to hold the lock;
\* and a Close on a lock that is closed panics at its first close.
C23_CloseTerminal ==
    /\ [][\A l \in Locks : closed[l] \subseteq closed'[l]]_vars
    /\ [][\A p \in Lockers : (Leaves(p, "Lock_send") /\ "request" \in closed[TplOf(p)]) =>
            pc'[p] = "panic"]_vars
    /\ [][\A p \in Lockers :
            (CloseReturned(TplOf(p)) /\ pc[p] \in {"L_idle", "Get_recv", "Get_track", "Lock_send"}) =>
                pc'[p] \in {"L_idle", "Get_recv", "Get_track", "Lock_send", "panic"}]_vars
    /\ [][\A x \in Closers : (Leaves(x, "Close_1") /\ "request" \in closed[TplOf(x)]) =>
            (pc'[x] = "panic" /\ closed' = closed)]_vars

\* Close has returned, and a Lock that was called afterwards, in a later
\* cycle of its caller, has panicked at its send with its token in hand
C23_Witness ==
    \E p \in Lockers, x \in Closers :
        /\ CloseReturned(TplOf(p)) /\ pc[x] = "X_idle"
        /\ pc[p] = "panic" /\ sem[p] # NoSem /\ cycles[p] < cfg.cycles
        /\ request[TplOf(p)] = <<>>

----------------------------------------------------------------------------
(* The polls of the worker loops (SpecMulti) *)

\* worker w takes a step of HasLockRequest or HasUnlockRequest (a poll that
\* finds nothing and is repeated is no step)
PollStep(w) == Leaves(w, "W_poll") \/ Leaves(w, "W_pollUnlock")

\* C24: a poll changes no channel and no pool; HasLockRequest sends the
\* loop on to ConsumeLockRequest exactly when a token is pending in the
\* request channel; and a worker that is in ConsumeLockRequest (resp.
\* ConsumeUnlockRequest), which it has entered after a successful poll,
\* finds an element in the request (resp. done) channel, i.e. its receive
\* does not block.
C24_PollThenConsume ==
    /\ [][\A w \in Workers : PollStep(w) =>
            /\ request' = request /\ done' = done
            /\ elements' = elements /\ tracker' = tracker
            /\ (pc[w] = "W_poll" => (pc'[w] = "W_consume" <=> Len(request[TplOf(w)]) > 0))]_vars
    /\ [](\A w \in Workers :
            /\ pc[w] = "W_consume" => Len(request[TplOf(w)]) > 0
            /\ pc[w] = "W_consumeUnlock" => done[TplOf(w)] > 0)

----------------------------------------------------------------------------
(* The lock with its default pool of one token (Spec with n = 1) *)

\* locker p has drawn a token in Lock and has not yet returned from Unlock
PastGet(p) == pc[p] \in {"Get_track", "Lock_send", "Lock_wait", "locked", "Unlock_send"}

\* worker w has consumed the token of a cycle and its first Release of that
\* token has not yet enqueued it
InCycle(w) ==
    \/ pc[w] \in {"W_confirm", "W_pollUnlock", "W_consumeUnlock", "W_release1"}
    \/ pc[w] \in {"Put_track", "Put_send"} /\ ret[w] = "W_release2"

\* C25: with a pool of one token, at most one Lock at a time is past its
\* Get, and while the worker has a cycle's token that it has not released
\* no request is pending and no second Lock has drawn a token: any other
\* Lock call is still in Get.
C25_OneTokenOneCycle ==
    cfg.n = 1 =>
        /\ Cardinality({p \in Lockers : PastGet(p)}) <= 1
        /\ \A w \in Workers : InCycle(w) =>
              /\ request[TplOf(w)] = <<>>
              /\ \A p \in Lockers : PastGet(p) => pc[p] \in {"Lock_wait", "locked", "Unlock_send"}


----------------------------------------------------------------------------
(* The tracking map of a pool whose clients Put twice (SpecPoolDup) *)

\* C29: under any interleaving of Get and Put, duplicate Puts included,
\* every buffer in the available queue is tracked as not checked out, and
\* every buffer a caller holds from Get is tracked as checked out until that
\* caller Puts it.
C29_TrackingInvariant ==
    /\ \A q \in Pools : \A j \in 1..Len(elements[q]) :
          tracker[q][elements[q][j].id] = FALSE
    /\ \A p \in Clients : pc[p] = "C_hold" => tracker[PoolOf(p)][sem[p].id] = TRUE

----------------------------------------------------------------------------
(* The cycle of one lock seen from outside (SpecSingle) *)

\* what can be seen of lock l: a request has been sent and not yet
\* confirmed, the confirmation has been delivered to the locker, which has
\* not yet sent done, and the done channel is occupied
RequestSent(l) == \E p \in Lockers : TplOf(p) = l /\ pc[p] = "Lock_wait"
ConfirmDelivered(l) == \E p \in Lockers : TplOf(p) = l /\ Confirmed(p)
DoneSent(l) == done[l] > 0

\* the state of the four-state machine that the state of lock l stands for
Phase(l) ==
    CASE DoneSent(l) -> "Done"
      [] ConfirmDelivered(l) -> "Confirmed"
      [] RequestSent(l) -> "RequestSent"
      [] OTHER -> "Idle"

PhaseNext == {<<"Idle", "RequestSent">>, <<"RequestSent", "Confirmed">>,
              <<"Confirmed", "Done">>, <<"Done", "Idle">>}

\* C30: with one locker, one worker, no timeout and no hook, the lock starts
\* Idle, at most one of request sent, confirmed and done holds at a time, and
\* every step leaves the state of the four-state machine unchanged or takes
\* one of Idle -> RequestSent -> Confirmed -> Done -> Idle.
C30_FourStateMachine ==
    /\ \A l \in Locks : Phase(l) = "Idle"
    /\ [](\A l \in Locks :
            ~(RequestSent(l) /\ DoneSent(l)) /\ ~(ConfirmDelivered(l) /\ DoneSent(l)))
    /\ [][\A l \in Locks :
            Phase(l)' = Phase(l) \/ <<Phase(l), Phase(l)'>> \in PhaseNext]_vars

----------------------------------------------------------------------------
(* Semaphore (SpecSem) *)

\* the slots the goroutines have acquired and not freed
RECURSIVE SumAcquired(_)
SumAcquired(S) ==
    IF S = {} THEN 0
    ELSE LET u == CHOOSE x \in S : TRUE
         IN acquired[u].add + acquired[u].fn + SumAcquired(S \ {u})

\* C26: a Semaphore made by New(n) with n > 0 never has more than n slots
\* occupied, whatever the goroutines call; TryAdd never blocks, takes a slot
\* and returns a release function with a nil error when fewer than n slots
\* are occupied, and returns no function and ErrNoSlotAvailable exactly when
\* all n are occupied.
C26_BoundedSlots ==
    /\ [](cfg.semN > 0 => slots \in 0..cfg.semN)
    /\ [](\A u \in SemUsers : pc[u] = "TryAdd" => ENABLED TryAdd(u))
    /\ [][\A u \in SemUsers : cfg.semN > 0 /\ Leaves(u, "TryAdd") =>
            IF slots < cfg.semN
            THEN /\ err'[u] = "nil"
                 /\ acquired'[u].fn = acquired[u].fn + 1
                 /\ slots' = slots + 1
            ELSE /\ err'[u] = "ErrNoSlotAvailable"
                 /\ acquired'[u] = acquired[u]
                 /\ slots' = slots]_vars

\* New(MaxSemN) is full, a goroutine holds a release function and a TryAdd
\* has been refused
C26_Witness ==
    /\ cfg.semN = MaxSemN
    /\ slots = cfg.semN
    /\ \E u \in SemUsers : acquired[u].fn > 0
    /\ \E u \in SemUsers : pc[u] \in {"S_idle", "S_done"} /\ err[u] = "ErrNoSlotAvailable"

\* C27: on a Semaphore made by New(n) with n > 0, calling a release function
\* frees exactly one slot, so that a TryAdd that follows succeeds; a TryAdd
\* or TryAddFor that fails leaves the number of occupied slots unchanged;
\* the occupied slots are those acquired and not yet released, so that none
\* is occupied once all are released.
C27_ReleaseFreesOne ==
    /\ [](cfg.semN > 0 => slots = SumAcquired(SemUsers))
    /\ [][\A u \in SemUsers : cfg.semN > 0 =>
            /\ Leaves(u, "release") =>
                  /\ slots' = slots - 1
                  /\ acquired'[u].fn = acquired[u].fn - 1
                  /\ slots' < cfg.semN
            /\ Leaves(u, "TryAdd") /\ slots < cfg.semN =>
                  err'[u] = "nil" /\ slots' = slots + 1
            /\ (Leaves(u, "TryAdd") \/ Leaves(u, "TryAddFor")) /\ err'[u] = "ErrNoSlotAvailable" =>
                  slots' = slots /\ acquired' = acquired]_vars

\* a goroutine that was refused a slot has released what it held, and no
\* slot is occupied
C27_Witness ==
    /\ cfg.semN > 0
    /\ slots = 0
    /\ \E u \in SemUsers :
          /\ pc[u] = "S_done"
          /\ err[u] = "ErrNoSlotAvailable"
          /\ acquired[u] = [add |-> 0, fn |-> 0]

\* C28: on the Semaphore made by New(NoLimit), Add and Done never block and
\* TryAdd and TryAddFor never return ErrNoSlotAvailable.
C28_NoLimitNeverRefuses ==
    cfg.semN = NoLimit =>
        \A u \in SemUsers :
            /\ pc[u] = "Add" => ENABLED Add(u)
            /\ pc[u] = "Done" => ENABLED Done(u)
            /\ err[u] # "ErrNoSlotAvailable"

----------------------------------------------------------------------------
(* What a failed Lock leaves behind (SpecFail) *)

\* every Lock of the lockers of w's lock has ended, the last of them with an
\* error
GivenUp(w) ==
    \A p \in Lockers : TplOf(p) = TplOf(w) => pc[p] = "L_done" /\ err[p] \in LockErrors

\* C31: when Lock has returned an error, the request channel does not hold
\* the token which that call sent, and no worker is in ConfirmLockRequest
\* when every locker has given up.
C31_FailedLockRollsBack ==
    /\ \A p \in Lockers :
          pc[p] = "Lock_fail" => SeqCount(request[TplOf(p)], sem[p].id) = 0
    /\ \A w \in Workers : pc[w] = "W_confirm" => ~GivenUp(w)

----------------------------------------------------------------------------
(* Lock calls that wait while the lock is closed (SpecClose) *)

\* the step with which the Lock of p returns nil
LockSucceeds(p) == pc[p] = "Lock_wait" /\ pc'[p] = "locked"

\* the step with which worker w gets past ConfirmLockRequest
Confirms(w) == pc[w] = "W_confirm" /\ pc'[w] = "W_pollUnlock"

\* C32: Lock returns nil only in a step in which a worker of its lock gets
\* past ConfirmLockRequest, also when Close is called while Lock waits for
\* the confirmation.
C32_SuccessOnlyOnConfirm ==
    [][\A p \in Lockers :
          LockSucceeds(p) => \E w \in Workers : TplOf(w) = TplOf(p) /\ Confirms(w)]_vars

----------------------------------------------------------------------------
(* The token of a successful Lock (SpecMulti) *)

\* C33: without a timeout, with several lockers and workers on one lock,
\* while a locker holds the lock (Lock has returned nil and Unlock has not
\* been called) the token it sent is not in the request channel any more,
\* and it is not in the available queue of the pool.
C33_OwnTokenConsumed ==
    \A p \in Lockers : pc[p] = "locked" =>
        /\ SeqCount(request[TplOf(p)], sem[p].id) = 0
        /\ SeqCount(elements[PoolOf(p)], sem[p].id) = 0

----------------------------------------------------------------------------
(* The size of the tracking map and of the queue *)

\* C34: the tracking map of a pool made with n buffers holds exactly n
\* identities in every reachable state.
C34_TrackerSize ==
    \A q \in Pools : Cardinality(DOMAIN tracker[q]) = cfg.n


\* a buffer is about to be enqueued while the queue is full
PutBlocked(p) == pc[p] = "Put_send" /\ Len(elements[PoolOf(p)]) >= cfg.n

\* C35: with Get and Put on tracked buffers, duplicate Puts included, the
\* available queue never holds the same identity twice and is never full
\* when a Put is about to enqueue, so the send in Put does not block.
C35_PutNeverBlocks ==
    /\ \A q \in Pools : \A j \in 1..Len(elements[q]) :
          SeqCount(elements[q], elements[q][j].id) = 1
    /\ \A p \in Procs : ~PutBlocked(p)


\* a duplicate Put of p has enqueued a buffer that q had got from Get in the
\* meantime and still holds
C35_Witness ==
    \E p \in Clients, q \in Clients :
        /\ p # q /\ pc[q] = "C_hold" /\ sem[p].id = sem[q].id
        /\ pc[p] \in {"C_idle", "C_done"} /\ cycles[p] < cfg.cycles
        /\ SeqCount(elements[PoolOf(q)], sem[q].id) = 1

----------------------------------------------------------------------------
(* The tokens of a lock at rest (Spec) *)

\* every locker has run all its cycles, no request and no done signal is
\* pending, and every worker has released the token of its last cycle, once
\* or twice
Quiescent ==
    /\ AllLockersDone
    /\ \A l \in Locks : request[l] = <<>> /\ done[l] = 0
    /\ \A w \in Workers : pc[w] \in {"W_poll", "W_release2", "W_ctx", "W_stopped"}

\* C36: at rest, the available queue of every pool holds exactly n distinct
\* buffers, all tracked as not checked out, and the tracking map holds no
\* other identity.
C36_TokensConserved ==
    Quiescent =>
        \A q \in Pools :
            /\ Len(elements[q]) = cfg.n
            /\ \A j \in 1..Len(elements[q]) :
                  /\ SeqCount(elements[q], elements[q][j].id) = 1
                  /\ elements[q][j].id \in DOMAIN tracker[q]
            /\ \A i \in DOMAIN tracker[q] : ~tracker[q][i]
            /\ Cardinality(DOMAIN tracker[q]) = cfg.n

\* two lockers of a lock with a pool of one token have run all their cycles
\* and the worker, cancelled, has returned
C36_Witness ==
    /\ Quiescent
    /\ Cardinality(Lockers) = 2 /\ cfg.n = 1
    /\ \A w \in Workers : pc[w] = "W_stopped"


----------------------------------------------------------------------------
(* The pool without identity tracking (SpecLimit) *)

\* C37: a Put on a MemPoolLimit enqueues the buffer whether or not it is in
\* the queue already, and waits exactly when the queue is full; a buffer put
\* twice can so be in the queue twice and be handed to two Get calls.
C37_DuplicatePutUnsafe ==
    /\ [](\A p \in LimitClients :
            pc[p] = "LimitPut" =>
                (ENABLED MemPoolLimitPut(p) <=> Len(elements[PoolOf(p)]) < cfg.n))
    /\ [][\A p \in LimitClients :
            Leaves(p, "LimitPut") =>
                elements'[PoolOf(p)] = Append(elements[PoolOf(p)], FullCap(sem[p]))]_vars

\* two callers hold the same backing array from Get at the same time
C37_Witness ==
    \E p \in LimitClients, q \in LimitClients :
        /\ p # q /\ pc[p] = "C_hold" /\ pc[q] = "C_hold"
        /\ sem[p].id = sem[q].id /\ sem[p].cap > 0 /\ sem[p].len > 0 /\ sem[q].len > 0

\* C38: once Clear has returned the pool has no queue and no tracking map,
\* and it stays so; a Get called afterwards can never receive, and every
\* Put or Resize called afterwards, of a buffer handed out before the Clear
\* included, ends in the panic of the untracked element
C38_ClearDiscardsBookkeeping ==
    /\ [](\A q \in Pools :
            cleared[q] =>
                /\ elements[q] = <<>> /\ tracker[q] = <<>>
                /\ \A p \in Clients :
                     PoolOf(p) = q /\ pc[p] = "Get_recv" => ~ENABLED GetRecv(p))
    /\ [][\A q \in Pools : cleared[q] => cleared'[q]]_vars
    /\ [][\A p \in Clients :
            cleared[PoolOf(p)]
                /\ (Leaves(p, "Put_track") \/ Leaves(p, "Resize_track"))
            => pc'[p] = "panic"]_vars

\* after Clear one goroutine waits in Get and another, which holds a buffer
\* handed out before the Clear, has failed in Put or Resize
C38_Witness ==
    \E p \in Clients, r \in Clients :
        /\ p # r /\ PoolOf(p) = PoolOf(r) /\ cleared[PoolOf(p)]
        /\ pc[p] = "Get_recv"
        /\ pc[r] = "panic" /\ sem[r].id # 0 /\ sem[r].len > 0

\* C39: the mutex of a pool is held only inside the tracked sections of Get,
\* Put and Resize: whenever a goroutine has left such a section, by a
\* return or by the panic of the untracked element, the mutex is unlocked,
\* and Put sends to the queue without holding it
C39_GuardOnlyAroundTracking ==
    /\ [](\A q \in Pools : mu[q] = 0)
    /\ [][\A p \in Procs : Leaves(p, "Put_send") => mu[PoolOf(p)] # p]_vars

====
